---- MODULE Spec2Model ----
(***************************************************************************)
(* STEP (ISO 10303-21) text parser and PMI extraction of eryxon-flow.      *)
(*                                                                         *)
(* A text is a sequence of atoms.  An atom is one character (punctuation,  *)
(* a digit, a blank, a newline) or one whole word: a maximal run of        *)
(* letters / underscores / inner digits such as "CARTESIAN_POINT", kept as *)
(* one atom so that the type names of the schema stay readable.  The       *)
(* regular expressions of the source are rendered as scanners over atoms.  *)
(*                                                                         *)
(* Python values are records: [k |-> "none"], [k |-> "str", v |-> text],   *)
(* [k |-> "int", v |-> n], [k |-> "float", v |-> thousandths] and          *)
(* [k |-> "list", v |-> sequence of values].                               *)
(***************************************************************************)
EXTENDS Integers, Sequences, FiniteSets, TLC

VARIABLES
    file,               \* the input as it was written (its parts, before reading)
    content,            \* the text read from it
    pc,                 \* position of the run
    entities,           \* StepParser.entities: id -> StepEntity
    entities_by_type,   \* StepParser.entities_by_type: TYPE -> list of ids
    visited,            \* the caller's visited set handed to follow_reference
    result,             \* value returned by the last call
    error,              \* exception that escaped the last call
    hash_seed,          \* string hashing of the running interpreter process
    pmi_data,           \* the dict extract_all fills, pass by pass
    passes,             \* the passes that have run on pmi_data
    part,               \* parts.metadata of the part in the database
    task                \* the request and its background task

vars == <<file, content, pc, entities, entities_by_type, visited, result, error,
          hash_seed, pmi_data, passes, part, task>>

\* no extraction has begun and no request has come in
NoData == [k |-> "none"]
NoJob ==
    /\ pmi_data = NoData
    /\ passes = NoData
    /\ part = NoData
    /\ task = NoData

(***************************************************************************)
(* Atoms                                                                   *)
(***************************************************************************)
QUOTE  == "'"
BSLASH == "\\"
NL     == "\n"
CR     == "\r"
SP     == " "

NoText == <<>>

(***************************************************************************)
(* Lexer: StepParser._normalize_step_content                               *)
(***************************************************************************)
\* body of the first loop (lines 165-174) at index i: a newline outside a
\* string becomes a blank; a quote toggles in_string unless the previous
\* character is a backslash
NewlineStep(s, text, i) ==
    IF text[i] = QUOTE /\ (i = 1 \/ text[i - 1] # BSLASH)
       THEN [result |-> Append(s.result, text[i]), in_string |-> ~s.in_string]
    ELSE IF text[i] \in {NL, CR} /\ ~s.in_string
       THEN [result |-> Append(s.result, SP), in_string |-> s.in_string]
    ELSE [result |-> Append(s.result, text[i]), in_string |-> s.in_string]

\* the first loop over the indices lo..hi in order, from loop state s (the
\* test on s.in_string makes s a value before the range is entered)
RECURSIVE NormalizeNewlines(_, _, _, _)
NormalizeNewlines(text, lo, hi, s) ==
    IF lo > hi \/ s.in_string \notin BOOLEAN THEN s
    ELSE IF lo = hi THEN NewlineStep(s, text, lo)
    ELSE NormalizeNewlines(text, (lo + hi) \div 2 + 1, hi,
                           NormalizeNewlines(text, lo, (lo + hi) \div 2, s))

\* body of the second loop (lines 182-193) at index i: a blank outside a
\* string is dropped when the previous character was one; here every quote
\* toggles in_string
CollapseStep(s, text, i) ==
    IF text[i] = QUOTE
       THEN [final |-> Append(s.final, text[i]), in_string |-> ~s.in_string,
             prev_space |-> FALSE]
    ELSE IF text[i] = SP /\ ~s.in_string
       THEN [final |-> IF s.prev_space THEN s.final ELSE Append(s.final, text[i]),
             in_string |-> s.in_string, prev_space |-> TRUE]
    ELSE [final |-> Append(s.final, text[i]), in_string |-> s.in_string,
          prev_space |-> FALSE]

\* the second loop over the indices lo..hi in order, from loop state s
RECURSIVE CollapseSpaces(_, _, _, _)
CollapseSpaces(text, lo, hi, s) ==
    IF lo > hi \/ s.in_string \notin BOOLEAN THEN s
    ELSE IF lo = hi THEN CollapseStep(s, text, lo)
    ELSE CollapseSpaces(text, (lo + hi) \div 2 + 1, hi,
                        CollapseSpaces(text, lo, (lo + hi) \div 2, s))

normalize_step_content(text) ==
    LET normalized ==
            NormalizeNewlines(text, 1, Len(text),
                              [result |-> <<>>, in_string |-> FALSE]).result
    IN  CollapseSpaces(normalized, 1, Len(normalized),
                       [final |-> <<>>, in_string |-> FALSE,
                        prev_space |-> FALSE]).final


(***************************************************************************)
(* Character classes of the regular expressions                            *)
(***************************************************************************)
TAB == "\t"

Digits == {"0", "1", "2", "3", "4", "5", "6", "7", "8", "9"}
Blanks == {SP, NL, CR, TAB}                              \* \s
Punct  == {"#", "=", "(", ")", ";", ",", QUOTE, ".", "$", "*", BSLASH, "-", "+"}

IsDigit(a) == a \in Digits
IsSpace(a) == a \in Blanks
\* every other atom is a word: it matches [A-Z_][A-Z0-9_]* under IGNORECASE
IsWord(a)  == a \notin (Digits \cup Blanks \cup Punct)

DigitVal(a) ==
    CASE a = "0" -> 0 [] a = "1" -> 1 [] a = "2" -> 2 [] a = "3" -> 3
      [] a = "4" -> 4 [] a = "5" -> 5 [] a = "6" -> 6 [] a = "7" -> 7
      [] a = "8" -> 8 [] a = "9" -> 9

\* str.upper() of a word; words written in capitals are their own image
LowerWords ==
    { <<"foo", "FOO">>, <<"bar", "BAR">>, <<"Bar", "BAR">>, <<"data", "DATA">>,
      <<"Data", "DATA">>, <<"endsec", "ENDSEC">>, <<"EndSec", "ENDSEC">>,
      <<"datum", "DATUM">>, <<"a", "A">>, <<"b", "B">>,
      <<"abc", "ABC">>, <<"x", "X">>, <<"y", "Y">>, <<"diameter", "DIAMETER">>,
      <<"radius", "RADIUS">>, <<"nominal", "NOMINAL">>, <<"upper", "UPPER">>,
      <<"lower", "LOWER">>, <<"value", "VALUE">>, <<"limit", "LIMIT">>, <<"Datum", "DATUM">>,
      <<"Simple", "SIMPLE">>, <<"feature", "FEATURE">>, <<"mmc", "MMC">>, <<"lmc", "LMC">> }

UpperAtom(a) ==
    IF \E p \in LowerWords : p[1] = a
       THEN (CHOOSE p \in LowerWords : p[1] = a)[2]
       ELSE a

Upper(text) == [i \in 1..Len(text) |-> UpperAtom(text[i])]

\* text[from..to], empty when from > to
Slice(text, from, to) == SubSeq(text, from, to)

At(text, i, a) == i >= 1 /\ i <= Len(text) /\ text[i] = a

RECURSIVE SkipSpaces(_, _)
\* first index >= i that holds no blank (Len + 1 when there is none): \s*
SkipSpaces(text, i) ==
    IF i <= Len(text) /\ IsSpace(text[i]) THEN SkipSpaces(text, i + 1) ELSE i

RECURSIVE SkipSpacesBack(_, _)
\* last index <= i that holds no blank (0 when there is none)
SkipSpacesBack(text, i) ==
    IF i >= 1 /\ IsSpace(text[i]) THEN SkipSpacesBack(text, i - 1) ELSE i

\* str.strip()
Strip(text) ==
    Slice(text, SkipSpaces(text, 1), SkipSpacesBack(text, Len(text)))

RECURSIVE SkipDigits(_, _)
SkipDigits(text, i) ==                                   \* \d*
    IF i <= Len(text) /\ IsDigit(text[i]) THEN SkipDigits(text, i + 1) ELSE i

RECURSIVE SkipIdent(_, _)
SkipIdent(text, i) ==                                    \* [A-Z0-9_]*
    IF i <= Len(text) /\ (IsWord(text[i]) \/ IsDigit(text[i]))
       THEN SkipIdent(text, i + 1) ELSE i

\* first index >= i holding atom a, 0 when there is none
RECURSIVE FindAtom(_, _, _)
FindAtom(text, a, i) ==
    IF i > Len(text) THEN 0
    ELSE IF text[i] = a THEN i ELSE FindAtom(text, a, i + 1)

\* last index <= i holding atom a, 0 when there is none
RECURSIVE FindAtomBack(_, _, _)
FindAtomBack(text, a, i) ==
    IF i < 1 THEN 0
    ELSE IF text[i] = a THEN i ELSE FindAtomBack(text, a, i - 1)

StartsWith(text, a) == Len(text) >= 1 /\ text[1] = a
EndsWith(text, a)   == Len(text) >= 1 /\ text[Len(text)] = a

(***************************************************************************)
(* Python values                                                           *)
(***************************************************************************)
PyNone        == [k |-> "none"]
PyStr(text)   == [k |-> "str", v |-> text]
PyInt(n)      == [k |-> "int", v |-> n]
PyFloat(n)    == [k |-> "float", v |-> n]          \* n counts thousandths
PyList(items) == [k |-> "list", v |-> items]

IsNone(x)   == x.k = "none"
IsStr(x)    == x.k = "str"
IsList(x)   == x.k = "list"
IsNumber(x) == x.k \in {"int", "float"}          \* isinstance(x, (int, float))
IsRef(x)    == IsStr(x) /\ StartsWith(x.v, "#")  \* isinstance(x, str) and x.startswith('#')

\* bool(x): PyNone, '', 0, 0.0 and [] are falsy
Truthy(x) ==
    CASE x.k = "none"  -> FALSE
      [] x.k = "str"   -> x.v # <<>>
      [] x.k = "int"   -> x.v # 0
      [] x.k = "float" -> x.v # 0
      [] x.k = "list"  -> x.v # <<>>

\* float(x) of a number
AsFloat(x) == IF x.k = "int" THEN x.v * 1000 ELSE x.v

(***************************************************************************)
(* int(text) and float(text)                                               *)
(***************************************************************************)
RECURSIVE DigitsValue(_, _)
\* value of the digit run text[1..n]
DigitsValue(text, n) ==
    IF n = 0 THEN 0 ELSE DigitsValue(text, n - 1) * 10 + DigitVal(text[n])

AllDigits(text) == \A i \in 1..Len(text) : IsDigit(text[i])

HasSign(text)  == Len(text) >= 1 /\ text[1] \in {"-", "+"}
Unsigned(text) == IF HasSign(text) THEN Tail(text) ELSE text
Signed(text, n) == IF StartsWith(text, "-") THEN 0 - n ELSE n

\* int() accepts [+-]?\d+
IsIntLiteral(text) == Unsigned(text) # <<>> /\ AllDigits(Unsigned(text))
IntValue(text) == Signed(text, DigitsValue(Unsigned(text), Len(Unsigned(text))))

\* float() accepts [+-]?(\d+\.?\d*|\.\d+) here; exponent forms, inf and nan
\* are written with letters and lie outside the texts of this model
DotAt(text) == FindAtom(text, ".", 1)
WholePart(text) == IF DotAt(text) = 0 THEN text ELSE Slice(text, 1, DotAt(text) - 1)
FracPart(text)  == IF DotAt(text) = 0 THEN <<>> ELSE Slice(text, DotAt(text) + 1, Len(text))

IsFloatLiteral(text) ==
    LET u == Unsigned(text) IN
    /\ AllDigits(WholePart(u))
    /\ AllDigits(FracPart(u))
    /\ Len(WholePart(u)) + Len(FracPart(u)) >= 1

\* thousandths held by the digits after the point (three digits are kept)
FracValue(frac) ==
    LET d(i) == IF i <= Len(frac) THEN DigitVal(frac[i]) ELSE 0
    IN  d(1) * 100 + d(2) * 10 + d(3)

FloatValue(text) ==
    LET u == Unsigned(text) IN
    Signed(text, DigitsValue(WholePart(u), Len(WholePart(u))) * 1000
                 + FracValue(FracPart(u)))

HasWord(text) == \E i \in 1..Len(text) : IsWord(text[i])
HasAtom(text, a) == \E i \in 1..Len(text) : text[i] = a

(***************************************************************************)
(* Attribute decoder: StepParser._parse_attributes, _parse_single_value    *)
(***************************************************************************)
RECURSIVE parse_attributes(_)
RECURSIVE parse_single_value(_)
RECURSIVE SplitAttributes(_, _, _, _, _)
RECURSIVE SplitAtEveryComma(_, _, _, _, _)

\* a splitter that forgets the parenthesis depth: it splits on every comma
\* outside a quoted string
SplitAtEveryComma(attr_string, i, start, depth, in_string) ==
    CASE i > Len(attr_string)
           -> (IF Strip(Slice(attr_string, start, i - 1)) # <<>>
                  THEN <<parse_single_value(Strip(Slice(attr_string, start, i - 1)))>>
                  ELSE <<>>)
      [] i <= Len(attr_string) /\ ~in_string /\ attr_string[i] = ","
           -> <<parse_single_value(Strip(Slice(attr_string, start, i - 1)))>>
              \o SplitAtEveryComma(attr_string, i + 1, i + 1, depth, in_string)
      [] OTHER
           -> SplitAtEveryComma(attr_string, i + 1, start, depth,
                                IF attr_string[i] = QUOTE THEN ~in_string
                                ELSE in_string)

\* the while loop of _parse_attributes (lines 263-287), one character a
\* call; current_value, the characters appended since the last split, is
\* attr_string[start..i-1].  The second arm is the branch of line 277, taken
\* outside a string at a comma of depth 0; the last arm is every other
\* branch, with depth and in_string as that branch leaves them.
SplitAttributes(attr_string, i, start, depth, in_string) ==
    CASE i > Len(attr_string)
           -> (IF Strip(Slice(attr_string, start, i - 1)) # <<>>
                  THEN <<parse_single_value(Strip(Slice(attr_string, start, i - 1)))>>
                  ELSE <<>>)
      [] i <= Len(attr_string) /\ depth = 0 /\ ~in_string /\ attr_string[i] = ","
           -> <<parse_single_value(Strip(Slice(attr_string, start, i - 1)))>>
              \o SplitAttributes(attr_string, i + 1, i + 1, depth, in_string)
      [] OTHER
           -> SplitAttributes(
                 attr_string, i + 1, start,
                 IF in_string \/ attr_string[i] = QUOTE THEN depth
                 ELSE IF attr_string[i] = "(" THEN depth + 1
                 ELSE IF attr_string[i] = ")" THEN depth - 1
                 ELSE depth,
                 IF attr_string[i] = QUOTE
                    /\ (i = 1 \/ attr_string[i - 1] # BSLASH)
                    THEN ~in_string ELSE in_string)

parse_attributes(attr_string) ==
    IF Strip(attr_string) = <<>> THEN <<>>
    ELSE SplitAttributes(attr_string, 1, 1, 0, FALSE)

\* the number branch (lines 318-326): float() when the text holds a point,
\* int() otherwise; a ValueError leaves the raw token
parse_number(value) ==
    IF HasAtom(value, ".")
       THEN (IF IsFloatLiteral(value) THEN PyFloat(FloatValue(value)) ELSE PyStr(value))
       ELSE (IF IsIntLiteral(value) THEN PyInt(IntValue(value)) ELSE PyStr(value))

parse_single_value(raw_value) ==
    LET value == Strip(raw_value)
        inner == Slice(value, 2, Len(value) - 1)
    IN
    IF value = <<>> \/ value = <<"$">> \/ value = <<"*">> THEN PyNone
    ELSE IF StartsWith(value, "#") THEN PyStr(value)
    ELSE IF StartsWith(value, QUOTE) /\ EndsWith(value, QUOTE) THEN PyStr(inner)
    ELSE IF StartsWith(value, ".") /\ EndsWith(value, ".") THEN PyStr(inner)
    ELSE IF StartsWith(value, "(") /\ EndsWith(value, ")")
       THEN (IF Strip(inner) = <<>> THEN PyList(<<>>)
             ELSE PyList(parse_attributes(inner)))
    ELSE parse_number(value)

(***************************************************************************)
(* Lexer: the DATA section (StepParser._parse_file, lines 97-102)          *)
(*   re.search(r'DATA\s*;(.*?)ENDSEC\s*;', content, DOTALL | IGNORECASE)   *)
(***************************************************************************)
\* the keyword at i, blanks, then a semicolon
KeywordAt(text, word, i) ==
    /\ UpperAtom(text[i]) = word
    /\ LET j == SkipSpaces(text, i + 1) IN j <= Len(text) /\ text[j] = ";"

\* index after the semicolon that closes the keyword at i
AfterKeyword(text, i) == SkipSpaces(text, i + 1) + 1

\* start positions at which the whole pattern matches
DataMatches(text) ==
    { i \in 1..Len(text) :
        /\ KeywordAt(text, "DATA", i)
        /\ \E k \in AfterKeyword(text, i)..Len(text) : KeywordAt(text, "ENDSEC", k) }

Minimum(S) == CHOOSE x \in S : \A y \in S : x <= y

\* group(1) of the leftmost match, the lazy .*? stopping at the first ENDSEC;
DataGroup(text) ==
    LET i == Minimum(DataMatches(text))
        b == AfterKeyword(text, i)
        k == Minimum({ n \in b..Len(text) : KeywordAt(text, "ENDSEC", n) })
    IN  Slice(text, b, k - 1)

(***************************************************************************)
(* Entity parser: entity_pattern (lines 111-120)                           *)
(*   #(\d+)\s*=\s*(\([^;]+\)|[A-Z_][A-Z0-9_]*\([^;]*\))\s*;                *)
(***************************************************************************)
NoMatch == [ok |-> FALSE]

\* "[^;]{least,} \) \s* ;" after the parenthesis opened at open: the match
\* ends at the first semicolon, and the last atom before it that is no
\* blank must be the closing parenthesis
BodyClose(text, open, least) ==
    LET semi  == FindAtom(text, ";", open + 1)
        close == IF semi = 0 THEN 0 ELSE SkipSpacesBack(text, semi - 1)
    IN  IF semi # 0 /\ close >= open + 1 + least /\ text[close] = ")"
           THEN [ok |-> TRUE, semi |-> semi, close |-> close]
           ELSE NoMatch

\* the match of entity_pattern that starts at i
EntityMatchAt(text, i) ==
    LET e == SkipDigits(text, i + 1)                 \* after (\d+)
        j == SkipSpaces(text, e)                     \* the =
        b == SkipSpaces(text, j + 1)                 \* start of group 2
        complex == b <= Len(text) /\ text[b] = "("
        open == IF complex THEN b
                ELSE IF b <= Len(text) /\ IsWord(text[b])
                        THEN SkipIdent(text, b + 1) ELSE 0
        c == BodyClose(text, open, IF complex THEN 1 ELSE 0)
    IN  IF /\ text[i] = "#"
           /\ e > i + 1
           /\ j <= Len(text) /\ text[j] = "="
           /\ open # 0 /\ open <= Len(text) /\ text[open] = "("
           /\ c.ok
           THEN [ok |-> TRUE,
                 id |-> Slice(text, i, e - 1),       \* f"#{match.group(1)}"
                 body |-> Slice(text, b, c.close),   \* match.group(2).strip()
                 raw_line |-> Slice(text, i, c.semi),\* match.group(0)
                 next |-> c.semi + 1]
           ELSE NoMatch

\* entity_pattern.finditer: leftmost matches that do not overlap
RECURSIVE EntityMatches(_, _)
EntityMatches(text, i) ==
    IF i > Len(text) THEN <<>>
    ELSE LET m == EntityMatchAt(text, i) IN
         IF m.ok THEN <<m>> \o EntityMatches(text, m.next)
         ELSE EntityMatches(text, i + 1)

(***************************************************************************)
(* StepParser._parse_entity_body                                           *)
(***************************************************************************)
\* type_pattern.finditer(inner): ([A-Z_][A-Z0-9_]*)\s*\(([^)]*)\)
RECURSIVE TypeMatches(_, _)
TypeMatches(inner, i) ==
    IF i > Len(inner) THEN <<>>
    ELSE LET c == SkipIdent(inner, i + 1)
             s == SkipSpaces(inner, c)
             r == IF s <= Len(inner) /\ inner[s] = "("
                     THEN FindAtom(inner, ")", s + 1) ELSE 0
         IN  IF IsWord(inner[i]) /\ r # 0
                THEN <<[type |-> Slice(inner, i, c - 1),
                        attr |-> Strip(Slice(inner, s + 1, r - 1))]>>
                     \o TypeMatches(inner, r + 1)
                ELSE TypeMatches(inner, i + 1)

\* ','.join(texts)
RECURSIVE JoinComma(_)
JoinComma(texts) ==
    IF texts = <<>> THEN <<>>
    ELSE IF Len(texts) = 1 THEN texts[1]
    ELSE texts[1] \o <<",">> \o JoinComma(Tail(texts))

SelectSeqNonEmpty(texts) == SelectSeq(texts, LAMBDA t : t # <<>>)

\* the complex branch (lines 207-227)
parse_complex_body(body) ==
    LET inner == Strip(IF EndsWith(body, ")")
                          THEN Slice(body, 2, Len(body) - 1)
                          ELSE Slice(body, 2, Len(body)))
        ms == TypeMatches(inner, 1)
    IN  [ok |-> TRUE,
         types |-> [n \in 1..Len(ms) |-> ms[n].type],
         attributes |->
             JoinComma(SelectSeqNonEmpty([n \in 1..Len(ms) |-> ms[n].attr]))]

\* the simple branch (lines 229-239); ok = FALSE stands for ParseError
parse_simple_body(body) ==
    LET c    == SkipIdent(body, 2)
        s    == SkipSpaces(body, c)
        last == FindAtomBack(body, ")", Len(body))
    IN  IF body = <<>> \/ ~IsWord(body[1]) THEN [ok |-> FALSE]
        ELSE IF s <= Len(body) /\ body[s] = "(" /\ last > s
           THEN [ok |-> TRUE, types |-> <<Slice(body, 1, c - 1)>>,
                 attributes |-> Slice(body, s + 1, last - 1)]
        ELSE [ok |-> TRUE, types |-> <<Slice(body, 1, c - 1)>>,
              attributes |-> <<>>]

parse_entity_body(raw_body) ==
    LET body == Strip(raw_body) IN
    IF StartsWith(body, "(") /\ ~(Len(body) >= 2 /\ body[2] = "(")
       THEN parse_complex_body(body)
       ELSE parse_simple_body(body)

(***************************************************************************)
(* Document store: StepParser._parse_file (lines 122-150)                  *)
(***************************************************************************)
EmptyDict == <<>>                                    \* {}

EmptyDocument == [entities |-> EmptyDict, entities_by_type |-> EmptyDict]

\* d[key] = value
Put(d, key, value) == (key :> value) @@ d

\* for t in types: entities_by_type[t.upper()].append(entity_id)
RECURSIVE IndexTypes(_, _, _)
IndexTypes(by_type, types, entity_id) ==
    IF types = <<>> THEN by_type
    ELSE LET t_upper == Upper(Head(types))
             ids == IF t_upper \in DOMAIN by_type THEN by_type[t_upper] ELSE <<>>
         IN  IndexTypes(Put(by_type, t_upper, Append(ids, entity_id)),
                        Tail(types), entity_id)

\* StepEntity(id, types, attributes, raw_line) with parsed_attributes set
StepEntity(m, parsed) ==
    [id |-> m.id, types |-> parsed.types, attributes |-> parsed.attributes,
     raw_line |-> m.raw_line,
     parsed_attributes |-> parse_attributes(parsed.attributes)]

\* the body of the for loop: a statement whose body raises is skipped
StoreEntity(doc, m) ==
    LET parsed == parse_entity_body(m.body) IN
    IF ~parsed.ok THEN doc
    ELSE [entities |-> Put(doc.entities, m.id, StepEntity(m, parsed)),
          entities_by_type |->
              IndexTypes(doc.entities_by_type, parsed.types, m.id)]

RECURSIVE StoreEntities(_, _, _)
StoreEntities(doc, ms, n) ==
    IF n > Len(ms) THEN doc
    ELSE StoreEntities(StoreEntity(doc, ms[n]), ms, n + 1)

\* the Document of a normalized DATA section
ParseData(section) == StoreEntities(EmptyDocument, EntityMatches(section, 1), 1)

\* a loader that takes the whole text for the DATA section
parse_whole_text(text) ==
    [ok |-> TRUE, doc |-> ParseData(normalize_step_content(text))]

\* StepParser._parse_file after the file has been read
parse_file(text) ==
    IF DataMatches(text) = {}
       THEN [ok |-> FALSE, error |-> "ValueError"]    \* line 100
       ELSE [ok |-> TRUE,
             doc |-> ParseData(normalize_step_content(DataGroup(text)))]

(***************************************************************************)
(* Runs                                                                    *)
(***************************************************************************)
NoFile   == [kind |-> "none"]
NoResult == [k |-> "nothing"]
NoError  == "none"

\* all texts of at most n atoms over an alphabet
Texts(alphabet, n) == UNION { [1..m -> alphabet] : m \in 0..n }

\* all sequences of at most n members of S
SeqsUpTo(S, n) == UNION { [1..m -> S] : m \in 0..n }

RECURSIVE Concat(_)
Concat(texts) == IF texts = <<>> THEN <<>> ELSE Head(texts) \o Concat(Tail(texts))

(***************************************************************************)
(* Specification SpecLex: the normalizer applied to arbitrary short texts  *)
(***************************************************************************)
MaxLexLen == 6

LexAlphabet == {QUOTE, BSLASH, NL, SP, "a"}

InitLex ==
    /\ content \in Texts(LexAlphabet, MaxLexLen)
    /\ file = NoFile
    /\ pc = "start"
    /\ entities = EmptyDict
    /\ entities_by_type = EmptyDict
    /\ visited = {}
    /\ result = NoResult
    /\ error = NoError
    /\ hash_seed = 0
    /\ NoJob

\* data_section = self._normalize_step_content(data_section)   (line 106)
Normalize ==
    /\ pc = "start"
    /\ result' = normalize_step_content(content)
    /\ pc' = "normalized"
    /\ UNCHANGED <<pmi_data, passes, part, task, file, content, entities, entities_by_type, visited, error, hash_seed>>

NextLex == Normalize

SpecLex == InitLex /\ [][NextLex]_vars

(***************************************************************************)
(* C5                                                                      *)
(***************************************************************************)
\* The Normal / InString machine of the lexer, run once over the text: a
\* quote that is not escaped toggles the state, a character inside a string
\* is copied, a blank or newline outside a string is written as one blank
\* per run.  backslash_escapes selects the reading of "unescaped": a quote
\* after a backslash does not toggle (line 167), or every quote toggles (a
\* doubled quote then toggles twice and stays inside the string).
RECURSIVE TwoStateMachine(_, _, _, _, _)
TwoStateMachine(text, i, in_string, prev_space, backslash_escapes) ==
    IF i > Len(text) THEN <<>>
    ELSE LET char == text[i]
             toggles == /\ char = QUOTE
                        /\ (~backslash_escapes \/ i = 1 \/ text[i - 1] # BSLASH)
         IN
         IF toggles
            THEN <<char>> \o TwoStateMachine(text, i + 1, ~in_string, FALSE,
                                             backslash_escapes)
         ELSE IF in_string
            THEN <<char>> \o TwoStateMachine(text, i + 1, in_string, FALSE,
                                             backslash_escapes)
         ELSE IF IsSpace(char)
            THEN (IF prev_space THEN <<>> ELSE <<SP>>)
                 \o TwoStateMachine(text, i + 1, in_string, TRUE, backslash_escapes)
         ELSE <<char>> \o TwoStateMachine(text, i + 1, in_string, FALSE,
                                          backslash_escapes)

\* C5: the normalized text is the output of one two-state machine toggled on
\* each unescaped quote (under either reading of "unescaped"): string content
\* is copied unchanged, and outside strings newlines become blanks and every
\* run of whitespace is one blank.
C5_OneTwoStateMachine ==
    pc = "normalized" =>
        \/ result = TwoStateMachine(content, 1, FALSE, FALSE, TRUE)
        \/ result = TwoStateMachine(content, 1, FALSE, FALSE, FALSE)

\* the two loops of the code agree with the machine on texts without backslash
C5_AgreesWithoutBackslash ==
    (pc = "normalized" /\ ~HasAtom(content, BSLASH)) =>
        result = TwoStateMachine(content, 1, FALSE, FALSE, FALSE)

(***************************************************************************)
(* Specification SpecAttr: the attribute decoder applied to attribute      *)
(* strings written as comma-separated pieces                               *)
(***************************************************************************)
MaxPieces == 4

\* the pieces an attribute string is written from: kinds of STEP values, one
\* of them padded with blanks
AttrPieces ==
    { <<"$">>,
      <<"*">>,
      <<"#", "1", "2">>,
      <<QUOTE, "abc", QUOTE>>,
      <<QUOTE, "a", ",", "(", "b", QUOTE>>,
      <<".", "RED", ".">>,
      <<"(", "1", ",", "2", ",", "3", ")">>,
      <<"(", "#", "1", ",", "(", "2", ",", QUOTE, "a", ",", "b", QUOTE, ")", ",", "$", ")">>,
      <<SP, "-", "7", SP>>,
      <<"1", ".", "5">>,
      <<"LENGTH_MEASURE", "(", "4", "8", ".", ",", "FOO", ")">> }

RECURSIVE JoinWith(_, _)
JoinWith(texts, sep) ==
    IF texts = <<>> THEN <<>>
    ELSE IF Len(texts) = 1 THEN texts[1]
    ELSE texts[1] \o sep \o JoinWith(Tail(texts), sep)

InitAttr ==
    /\ \E pieces \in SeqsUpTo(AttrPieces, MaxPieces) \ {<<>>} :
          /\ file = [kind |-> "attributes", pieces |-> pieces]
          /\ content = JoinWith(pieces, <<",">>)
    /\ pc = "start"
    /\ entities = EmptyDict
    /\ entities_by_type = EmptyDict
    /\ visited = {}
    /\ result = NoResult
    /\ error = NoError
    /\ hash_seed = 0
    /\ NoJob

\* entity.parsed_attributes = self._parse_attributes(attributes)   (line 137)
ParseAttributes ==
    /\ pc = "start"
    /\ result' = parse_attributes(content)
    /\ pc' = "decoded"
    /\ UNCHANGED <<pmi_data, passes, part, task, file, content, entities, entities_by_type, visited, error, hash_seed>>

NextAttr == ParseAttributes

SpecAttr == InitAttr /\ [][NextAttr]_vars

(***************************************************************************)
(* C7                                                                      *)
(***************************************************************************)
\* what the classification order of the decoder gives for each piece, written
\* out by hand: Null for $ and *, the reference text, the string without its
\* quotes, the enumeration name, the list of decoded members, the number, and
\* the raw token.  (The decoder returns untagged Python values: a reference,
\* a string, an enumeration name and a raw token are all str.)
DecodedPiece(piece) ==
    CASE piece = <<"$">> -> PyNone
      [] piece = <<"*">> -> PyNone
      [] piece = <<"#", "1", "2">> -> PyStr(<<"#", "1", "2">>)
      [] piece = <<QUOTE, "abc", QUOTE>> -> PyStr(<<"abc">>)
      [] piece = <<QUOTE, "a", ",", "(", "b", QUOTE>> -> PyStr(<<"a", ",", "(", "b">>)
      [] piece = <<".", "RED", ".">> -> PyStr(<<"RED">>)
      [] piece = <<"(", "1", ",", "2", ",", "3", ")">>
            -> PyList(<<PyInt(1), PyInt(2), PyInt(3)>>)
      [] piece = <<"(", "#", "1", ",", "(", "2", ",", QUOTE, "a", ",", "b", QUOTE, ")", ",", "$", ")">>
            -> PyList(<<PyStr(<<"#", "1">>),
                        PyList(<<PyInt(2), PyStr(<<"a", ",", "b">>)>>),
                        PyNone>>)
      [] piece = <<SP, "-", "7", SP>> -> PyInt(0 - 7)
      [] piece = <<"1", ".", "5">> -> PyFloat(1500)
      [] piece = <<"LENGTH_MEASURE", "(", "4", "8", ".", ",", "FOO", ")">>
            -> PyStr(<<"LENGTH_MEASURE", "(", "4", "8", ".", ",", "FOO", ")">>)

\* C7: the decoder yields one value per top-level piece, in order, each the
\* classification of its piece; commas inside parentheses or inside a quoted
\* string do not split.
C7_DecodesTopLevelPieces ==
    pc = "decoded" =>
        /\ Len(result) = Len(file.pieces)
        /\ \A i \in 1..Len(file.pieces) : result[i] = DecodedPiece(file.pieces[i])

\* the attribute string of the specification: $,'abc',.RED.,(1,2,3)
C7_Example ==
    <<"$", ",", QUOTE, "abc", QUOTE, ",", ".", "RED", ".", ",",
      "(", "1", ",", "2", ",", "3", ")">>

\* C7 witness: the example has been decoded to [Null, "abc", RED, [1,2,3]]
C7_Witness ==
    /\ pc = "decoded"
    /\ content = C7_Example
    /\ result = <<PyNone, PyStr(<<"abc">>), PyStr(<<"RED">>),
                  PyList(<<PyInt(1), PyInt(2), PyInt(3)>>)>>

(***************************************************************************)
(* Resolver: StepEntity.has_type and the look-ups of StepParser            *)
(***************************************************************************)
\* a comparison that minds the letter case
has_type_exact(entity, type_name) ==
    \E i \in 1..Len(entity.types) : entity.types[i] = type_name

\* type_name.upper() in [t.upper() for t in self.types]
has_type(entity, type_name) ==
    \E i \in 1..Len(entity.types) : Upper(entity.types[i]) = Upper(type_name)

\* StepParser.get_entity of a str: '' gives None, an id without # gets one
get_entity(ents, entity_id) ==
    LET key == IF StartsWith(entity_id, "#") THEN entity_id
               ELSE <<"#">> \o entity_id
    IN  IF entity_id = <<>> THEN PyNone
        ELSE IF key \in DOMAIN ents THEN ents[key] ELSE PyNone

\* a look-up that answers a type name the file does not define with the
\* entities of a type it does define
find_entities_of_some_type(ents, by_type, entity_type) ==
    LET key == IF Upper(entity_type) \in DOMAIN by_type
                  THEN Upper(entity_type)
                  ELSE CHOOSE k \in DOMAIN by_type : TRUE
        entity_ids == IF DOMAIN by_type = {} THEN <<>> ELSE by_type[key]
    IN  [i \in 1..Len(entity_ids) |-> ents[entity_ids[i]]]

\* StepParser.find_entities
find_entities(ents, by_type, entity_type) ==
    LET entity_ids == IF Upper(entity_type) \in DOMAIN by_type
                         THEN by_type[Upper(entity_type)] ELSE <<>>
    IN  [i \in 1..Len(entity_ids) |-> ents[entity_ids[i]]]

\* default of the max_depth parameter of follow_reference
max_depth == 50

(***************************************************************************)
(* Specification Spec: a STEP text is loaded, then queried                 *)
(***************************************************************************)
MaxStmts == 3
\* a depth limit a caller of follow_reference passes instead of the default
ShallowDepth == 1

\* statements a DATA section is written from
SimpleStmt   == <<"#", "1", "=", "FOO", "(", "1", ")", ";">>
SameIdStmt   == <<"#", "1", "=", "bar", "(", "2", ")", ";">>
ComplexStmt  == <<"#", "1", "0", "=", "(", "FOO", "(", "1", ".", "0", ")", SP,
                  "BAR", "(", QUOTE, "x", QUOTE, ")", ")", ";">>
CycleStmt1   == <<"#", "1", "=", "A", "(", "#", "2", ")", ";">>
CycleStmt2   == <<"#", "2", "=", "A", "(", "#", "1", ")", ";">>
\* statements outside the grammar  #<digits> = TYPE(attrs) | (TYPE(attrs) ...) ;
NestedStmt   == <<"#", "3", "=", "(", "(", "FOO", "(", "1", ")", ")", ")", ";">>
UnclosedStmt == <<"#", "4", "=", "FOO", "(", "1", ";">>
NoTypeStmt   == <<"#", "7", "=", "(", "1", ",", "2", ")", ";">>

WellFormed == {SimpleStmt, SameIdStmt, ComplexStmt, CycleStmt1, CycleStmt2}
Malformed  == {NestedStmt, UnclosedStmt, NoTypeStmt}
Statements == WellFormed \cup Malformed

\* what precedes and what follows the statements; the first two pairs form a
\* DATA ... ENDSEC section, the others lack the opening or the closing
Wrappers ==
    { [head |-> <<"DATA", ";">>,      tail |-> <<"ENDSEC", ";">>,     section |-> TRUE],
      [head |-> <<"data", SP, ";">>,  tail |-> <<"EndSec", NL, ";">>, section |-> TRUE],
      [head |-> <<"HEADER", ";">>,    tail |-> <<"ENDSEC", ";">>,     section |-> FALSE],
      [head |-> <<"DATA", ";">>,      tail |-> <<"END", ";">>,        section |-> FALSE] }

\* the text of a file: head, the statements one per line, tail
FileText(f) ==
    f.head \o <<NL>> \o Concat([i \in 1..Len(f.stmts) |-> f.stmts[i] \o <<NL>>]) \o f.tail

Init ==
    /\ \E w \in Wrappers : \E stmts \in SeqsUpTo(Statements, MaxStmts) :
          /\ file = [kind |-> "step", head |-> w.head, tail |-> w.tail,
                     section |-> w.section, stmts |-> stmts]
          /\ content = FileText(file)
    /\ pc = "start"
    /\ entities = EmptyDict
    /\ entities_by_type = EmptyDict
    /\ visited = {}
    /\ result = NoResult
    /\ error = NoError
    /\ hash_seed = 0
    /\ NoJob

\* StepParser(path): __init__ runs _parse_file; the ValueError of line 100
\* escapes the constructor, so no parser object exists afterwards
Load ==
    /\ pc = "start"
    /\ LET r == parse_file(content) IN
       IF r.ok
          THEN /\ entities' = r.doc.entities
               /\ entities_by_type' = r.doc.entities_by_type
               /\ pc' = "loaded"
               /\ error' = NoError
          ELSE /\ UNCHANGED <<entities, entities_by_type>>
               /\ pc' = "failed"
               /\ error' = r.error
    /\ UNCHANGED <<pmi_data, passes, part, task, file, content, visited, result, hash_seed>>

\* type names a caller asks for
TypeNames == { <<"FOO">>, <<"foo">>, <<"BAR">>, <<"bar">>, <<"A">>, <<"B">> }

\* ids the statements define
EntityIds == { <<"#", "1">>, <<"#", "2">>, <<"#", "3">>, <<"#", "4">>,
               <<"#", "7">>, <<"#", "1", "0">> }

\* parser.find_entities(n)
FindEntities(n) ==
    /\ pc = "loaded"
    /\ result' = [k |-> "entities", asked |-> n,
                  v |-> find_entities(entities, entities_by_type, n)]
    /\ pc' = "found"
    /\ UNCHANGED <<pmi_data, passes, part, task, file, content, entities, entities_by_type, visited, error, hash_seed>>

\* parser.entities[id].has_type(n)
HasType(id, n) ==
    /\ pc = "loaded"
    /\ id \in DOMAIN entities
    /\ result' = [k |-> "bool", id |-> id, asked |-> n,
                  v |-> has_type(entities[id], n)]
    /\ pc' = "asked"
    /\ UNCHANGED <<pmi_data, passes, part, task, file, content, entities, entities_by_type, visited, error, hash_seed>>

\* references a traversal follows
FollowRefs == { <<"#", "1">>, <<"#", "2">>, <<"#", "9">> }

\* a follow that never raises
FollowWithoutCheck(ref_id, depth) ==
    /\ pc \in {"loaded", "following"}
    /\ visited' = visited \cup {ref_id}
    /\ result' = [k |-> "entity", asked |-> ref_id,
                  v |-> get_entity(entities, ref_id)]
    /\ pc' = "following"
    /\ error' = NoError
    /\ UNCHANGED <<pmi_data, passes, part, task, file, content, entities, entities_by_type, hash_seed>>

\* parser.follow_reference(ref_id, visited, depth) of a traversal that hands
\* the same visited set to each of its calls (a fresh set on the first)
FollowReference(ref_id, depth) ==
    /\ pc \in {"loaded", "following"}
    /\ IF Cardinality(visited) > depth \/ ref_id \in visited
          THEN /\ error' = "CircularReferenceError"
               /\ pc' = "raised"
               /\ UNCHANGED <<visited, result>>
          ELSE /\ visited' = visited \cup {ref_id}
               /\ result' = [k |-> "entity", asked |-> ref_id,
                             v |-> get_entity(entities, ref_id)]
               /\ pc' = "following"
               /\ error' = NoError
    /\ UNCHANGED <<pmi_data, passes, part, task, file, content, entities, entities_by_type, hash_seed>>

Next ==
    \/ Load
    \/ \E n \in TypeNames : FindEntities(n)
    \/ \E id \in EntityIds : \E n \in TypeNames : HasType(id, n)
    \/ \E ref_id \in FollowRefs : \E depth \in {max_depth, ShallowDepth} :
          FollowReference(ref_id, depth)

Spec == Init /\ [][Next]_vars

(***************************************************************************)
(* C3                                                                      *)
(***************************************************************************)
\* C3: loading a text without a DATA ... ENDSEC section fails with the
\* format error (ValueError); nothing is stored and nothing is ever queried.
C3_NoSectionIsFatal ==
    (~file.section /\ pc # "start") =>
        /\ pc = "failed"
        /\ error = "ValueError"
        /\ entities = EmptyDict
        /\ entities_by_type = EmptyDict
        /\ result = NoResult

\* C3 witness: a text with well-formed statements but no section has failed
C3_Witness ==
    /\ pc = "failed"
    /\ error = "ValueError"
    /\ ~file.section
    /\ file.stmts = <<SimpleStmt, ComplexStmt>>

(***************************************************************************)
(* C4                                                                      *)
(***************************************************************************)
\* the statement of the file that defines id last
LastWith(id) ==
    LET at == { i \in 1..Len(file.stmts) :
                  file.stmts[i] \in WellFormed /\
                  SubSeq(file.stmts[i], 1, Len(id) + 1) = id \o <<"=">> }
    IN  IF at = {} THEN 0 ELSE CHOOSE i \in at : \A j \in at : j <= i

\* C4: loading a text with a section completes; a malformed statement
\* contributes no Entity; every well-formed statement is in the Document.
C4_MalformedSkipped ==
    (file.section /\ pc # "start") =>
        /\ pc # "failed"
        /\ \A i \in 1..Len(file.stmts) :
              file.stmts[i] \in Malformed =>
                 ~\E id \in DOMAIN entities : entities[id].raw_line = file.stmts[i]
        /\ \A id \in EntityIds :
              LastWith(id) # 0 =>
                 /\ id \in DOMAIN entities
                 /\ entities[id].raw_line = file.stmts[LastWith(id)]

\* what holds of the loader: it completes, every well-formed statement is
\* in the Document, and the statements that raise or do not match are left out
C4_RejectedSkipped ==
    (file.section /\ pc # "start") =>
        /\ pc # "failed"
        /\ \A i \in 1..Len(file.stmts) :
              file.stmts[i] \in {NestedStmt, UnclosedStmt} =>
                 ~\E id \in DOMAIN entities : entities[id].raw_line = file.stmts[i]
        /\ \A id \in EntityIds :
              LastWith(id) # 0 =>
                 /\ id \in DOMAIN entities
                 /\ entities[id].raw_line = file.stmts[LastWith(id)]

\* the malformed statement #7=(1,2); has become an Entity without a type
C4_Witness ==
    /\ pc = "loaded"
    /\ file.stmts = <<NoTypeStmt, SimpleStmt>>
    /\ <<"#", "7">> \in DOMAIN entities
    /\ entities[<<"#", "7">>].types = <<>>

(***************************************************************************)
(* C6                                                                      *)
(***************************************************************************)
Id10 == <<"#", "1", "0">>

HasComplexStmt == \E i \in 1..Len(file.stmts) : file.stmts[i] = ComplexStmt

\* C6: #10=(FOO(1.0) BAR('x')); yields one Entity #10 with types [FOO, BAR]
\* in that order, and has_type answers true for foo and bar in any letter
\* case and false for any other name.
C6_ComplexEntity ==
    /\ (HasComplexStmt /\ pc \notin {"start", "failed"}) =>
          /\ Id10 \in DOMAIN entities
          /\ Cardinality({ id \in DOMAIN entities :
                             entities[id].raw_line = ComplexStmt }) = 1
          /\ entities[Id10].id = Id10
          /\ entities[Id10].types = << <<"FOO">>, <<"BAR">> >>
    /\ (HasComplexStmt /\ pc = "asked" /\ result.id = Id10) =>
          result.v = (result.asked \in { <<"FOO">>, <<"foo">>, <<"BAR">>, <<"bar">> })

\* C6 witness: has_type("bar") was asked of entity #10 and answered true
C6_Witness ==
    /\ pc = "asked"
    /\ file.stmts = <<ComplexStmt>>
    /\ result.id = Id10
    /\ result.asked = <<"bar">>
    /\ result.v = TRUE

(***************************************************************************)
(* C9                                                                      *)
(***************************************************************************)
\* the entities of the Document
Stored == { entities[id] : id \in DOMAIN entities }

\* C9: find_entities(n) returns exactly the entities of the Document that
\* carry type n in any letter case, each exactly once.
C9_FindByType ==
    pc = "found" =>
        /\ \A i \in 1..Len(result.v) :
              result.v[i] \in Stored /\ has_type(result.v[i], result.asked)
        /\ \A e \in Stored :
              has_type(e, result.asked) =>
                 Cardinality({ i \in 1..Len(result.v) : result.v[i] = e }) = 1

\* no id is defined by two statements of the file
UniqueIds ==
    \A i, j \in 1..Len(file.stmts) :
       (i # j /\ file.stmts[i] \in WellFormed /\ file.stmts[j] \in WellFormed) =>
          \A id \in EntityIds :
             ~(LastWith(id) # 0 /\
               SubSeq(file.stmts[i], 1, Len(id) + 1) = id \o <<"=">> /\
               SubSeq(file.stmts[j], 1, Len(id) + 1) = id \o <<"=">>)

\* what holds of find_entities: the claim, for files that define no id twice
C9_FindByTypeUniqueIds ==
    (pc = "found" /\ UniqueIds) =>
        /\ \A i \in 1..Len(result.v) :
              result.v[i] \in Stored /\ has_type(result.v[i], result.asked)
        /\ \A e \in Stored :
              has_type(e, result.asked) =>
                 Cardinality({ i \in 1..Len(result.v) : result.v[i] = e }) = 1

\* in #1=FOO(1); #1=bar(2); find_entities("FOO") returns the entity of the
\* second statement, which carries no type FOO
C9_Witness ==
    /\ pc = "found"
    /\ file.stmts = <<SimpleStmt, SameIdStmt>>
    /\ result.asked = <<"FOO">>
    /\ Len(result.v) = 1
    /\ result.v[1].types = << <<"bar">> >>

(***************************************************************************)
(* C8                                                                      *)
(***************************************************************************)
Ref1 == <<"#", "1">>
Ref2 == <<"#", "2">>

\* the document #1=A(#2); #2=A(#1);
IsCycleDocument == file.section /\ file.stmts = <<CycleStmt1, CycleStmt2>>

\* C8 as stated: in the cycle document follow("#1"), called on the loaded
\* parser with the default arguments, raises CircularReferenceError.
C8_FollowRaises ==
    [][(IsCycleDocument /\ pc = "loaded" /\ FollowReference(Ref1, max_depth))
          => (pc' = "raised" /\ error' = "CircularReferenceError")]_vars

\* C8 amended: a call follows one reference and returns the entity it names;
\* it raises CircularReferenceError exactly when the reference is already in
\* the visited set handed to it or that set holds more than max_depth
\* references, so a traversal that hands one set to all its calls makes at
\* most max_depth + 1 of them before it is stopped.
C8_RevisitRaises ==
    [][\A ref_id \in FollowRefs : \A depth \in {max_depth, ShallowDepth} :
          FollowReference(ref_id, depth) =>
             /\ (ref_id \in visited \/ Cardinality(visited) > depth) =>
                   (pc' = "raised" /\ error' = "CircularReferenceError")
             /\ pc' = "following" =>
                   /\ ref_id \notin visited
                   /\ Cardinality(visited) <= depth
                   /\ visited' = visited \cup {ref_id}
                   /\ result'.v = get_entity(entities, ref_id)]_vars

\* C8 witness: the traversal of the cycle followed #1, then #2, and was
\* stopped when it came back to #1
C8_Witness ==
    /\ IsCycleDocument
    /\ pc = "raised"
    /\ error = "CircularReferenceError"
    /\ visited = {Ref1, Ref2}
    /\ result.asked = Ref2
    /\ result.v = entities[Ref2]

(***************************************************************************)
(* Look-ups of StepParser on any value (step_parser.py, lines 328-599)     *)
(*                                                                         *)
(* A call either returns a value or raises; a raised exception is the      *)
(* record [exc |-> name].  Lists and tuples are PyList values.  A dict is  *)
(* the sequence of its items [key, value] in insertion order.  doc is the  *)
(* parser: [entities, entities_by_type].                                   *)
(***************************************************************************)
Raise(name) == [exc |-> name]
Raises(x)   == "exc" \in DOMAIN x

\* d[key] = value: a key already present keeps its place
DictPut(d, key, value) ==
    IF \E i \in 1..Len(d) : d[i].key = key
       THEN [i \in 1..Len(d) |->
                IF d[i].key = key THEN [key |-> key, value |-> value] ELSE d[i]]
       ELSE Append(d, [key |-> key, value |-> value])

\* d.get(key)
DictGet(d, key) ==
    IF \E i \in 1..Len(d) : d[i].key = key
       THEN d[CHOOSE i \in 1..Len(d) : d[i].key = key].value
       ELSE PyNone

\* list(d.values())
DictValues(d) == [i \in 1..Len(d) |-> d[i].value]

\* StepParser.get_entity of any value: a falsy one gives None, a str is
\* looked up, and a truthy value of another type has no startswith
get_entity_of(doc, entity_id) ==
    IF ~Truthy(entity_id) THEN PyNone
    ELSE IF IsStr(entity_id) THEN get_entity(doc.entities, entity_id.v)
    ELSE Raise("AttributeError")

get_attribute_value(entity, index) ==
    IF index < Len(entity.parsed_attributes)
       THEN entity.parsed_attributes[index + 1]
       ELSE PyNone

\* re.findall(r'#\d+', text)
RECURSIVE References(_, _)
References(text, i) ==
    IF i > Len(text) THEN <<>>
    ELSE IF text[i] = "#" /\ SkipDigits(text, i + 1) > i + 1
       THEN <<Slice(text, i, SkipDigits(text, i + 1) - 1)>>
            \o References(text, SkipDigits(text, i + 1))
    ELSE References(text, i + 1)

extract_references(entity) == References(entity.attributes, 1)

\* float(x): of a number, or of a str that float() accepts
FloatOf(x) ==
    CASE IsNumber(x) -> PyFloat(AsFloat(x))
      [] IsStr(x)    -> IF IsFloatLiteral(Strip(x.v))
                           THEN PyFloat(FloatValue(Strip(x.v)))
                           ELSE Raise("ValueError")
      [] OTHER       -> Raise("TypeError")

\* get_point_coordinates (type_name CARTESIAN_POINT) and get_direction_vector
\* (type_name DIRECTION): the three floats of attribute 1, or None; the
\* ValueError and TypeError of float() are caught
TypedTriple(doc, entity_id, type_name) ==
    LET Triple(entity) ==
            LET coords == get_attribute_value(entity, 1) IN
            IF Raises(entity) THEN entity
            ELSE IF entity = PyNone \/ ~has_type(entity, type_name) THEN PyNone
            ELSE IF /\ IsList(coords)
                    /\ Len(coords.v) >= 3
                    /\ \A i \in 1..3 : ~Raises(FloatOf(coords.v[i]))
               THEN PyList([i \in 1..3 |-> FloatOf(coords.v[i])])
            ELSE PyNone
    IN  Triple(get_entity_of(doc, entity_id))

get_point_coordinates(doc, entity_id) ==
    TypedTriple(doc, entity_id, <<"CARTESIAN_POINT">>)

get_direction_vector(doc, entity_id) ==
    TypedTriple(doc, entity_id, <<"DIRECTION">>)

\* the dict get_axis_placement builds of the entity it has looked up; a key
\* that is absent holds PyNone (z_axis, an alias of normal, is left out)
AxisPlacementOf(doc, entity) ==
    LET Placement(coords, z_dir, x_dir) ==
            IF Raises(coords) THEN coords
            ELSE IF Raises(z_dir) THEN z_dir
            ELSE IF Raises(x_dir) THEN x_dir
            ELSE IF coords = PyNone /\ z_dir = PyNone /\ x_dir = PyNone THEN PyNone
            ELSE [origin |-> coords, normal |-> z_dir, x_axis |-> x_dir]
        point_ref == get_attribute_value(entity, 1)
        z_dir_ref == get_attribute_value(entity, 2)
        x_dir_ref == get_attribute_value(entity, 3)
    IN  IF Raises(entity) THEN entity
        ELSE IF entity = PyNone THEN PyNone
        ELSE IF ~has_type(entity, <<"AXIS2_PLACEMENT_3D">>) THEN PyNone
        ELSE Placement(
                IF Truthy(point_ref)
                   THEN get_point_coordinates(doc, point_ref) ELSE PyNone,
                IF Truthy(z_dir_ref)
                   THEN get_direction_vector(doc, z_dir_ref) ELSE PyNone,
                IF Truthy(x_dir_ref)
                   THEN get_direction_vector(doc, x_dir_ref) ELSE PyNone)

\* StepParser.get_axis_placement
get_axis_placement(doc, entity_id) ==
    AxisPlacementOf(doc, get_entity_of(doc, entity_id))

\* PMI-related types counted by get_statistics (lines 620-626)
pmi_types ==
    << <<"DIMENSIONAL_LOCATION">>, <<"DIMENSIONAL_SIZE">>, <<"ANGULAR_LOCATION">>,
       <<"GEOMETRIC_TOLERANCE">>, <<"POSITION_TOLERANCE">>, <<"FLATNESS_TOLERANCE">>,
       <<"PERPENDICULARITY_TOLERANCE">>, <<"SURFACE_PROFILE_TOLERANCE">>,
       <<"DATUM">>, <<"DATUM_FEATURE">>, <<"DATUM_SYSTEM">>,
       <<"PLUS_MINUS_TOLERANCE">>, <<"TOLERANCE_VALUE">> >>

\* the entities a sequence of type names finds, look-up after look-up
RECURSIVE FindEach(_, _)
FindEach(doc, type_names) ==
    IF type_names = <<>> THEN <<>>
    ELSE find_entities(doc.entities, doc.entities_by_type, Head(type_names))
         \o FindEach(doc, Tail(type_names))

\* get_statistics; top_types, a sorted view of the same counts, is left out
get_statistics(doc) ==
    [total_entities |-> Cardinality(DOMAIN doc.entities),
     unique_types   |-> Cardinality(DOMAIN doc.entities_by_type),
     pmi_entities   |-> Len(FindEach(doc, pmi_types))]

(***************************************************************************)
(* The extraction passes (pmi_extractors.py)                               *)
(***************************************************************************)
\* the order list(set(...)) gives depends on the string hashing of the
\* interpreter process, which differs from process to process; the two seeds
\* stand for the order of first appearance and its reverse
HashSeeds == {0, 1}

RECURSIVE Distinct(_)
Distinct(xs) ==
    IF xs = <<>> THEN <<>>
    ELSE LET front == Distinct(SubSeq(xs, 1, Len(xs) - 1))
             last  == xs[Len(xs)]
         IN  IF \E i \in 1..Len(front) : front[i] = last
                THEN front ELSE Append(front, last)

\* list(set(xs)) under a seed; a list is unhashable
ListOfSet(xs, seed) ==
    LET d == Distinct(xs) IN
    IF \E i \in 1..Len(xs) : IsList(xs[i]) THEN Raise("TypeError")
    ELSE IF seed = 0 THEN PyList(d)
    ELSE PyList([i \in 1..Len(d) |-> d[Len(d) + 1 - i]])

\* DimensionExtractor._get_associated_geometry, entered after depth
\* SHAPE_ASPECT_RELATIONSHIP steps; a walk longer than the number of
\* relationships repeats one of them and never ends (RecursionError)
RECURSIVE get_associated_geometry(_, _, _, _)
RECURSIVE RelatingGeometry(_, _, _, _, _, _)

RECURSIVE RelatingGeometry_one_hop(_, _, _, _, _, _)
\* a second loop that goes no further than one relationship: entered from
\* a relating aspect it adds nothing
RelatingGeometry_one_hop(doc, seed, shape_aspect_ref, depth, sar_entities, i) ==
    IF depth > 0 \/ i > Len(sar_entities) THEN PyList(<<>>)
    ELSE LET related_ref  == get_attribute_value(sar_entities[i], 2)
             relating_ref == get_attribute_value(sar_entities[i], 3)
             rest == RelatingGeometry_one_hop(doc, seed, shape_aspect_ref,
                                              depth, sar_entities, i + 1)
             child_refs == get_associated_geometry(doc, seed, relating_ref,
                                                   depth + 1)
         IN  IF related_ref = shape_aspect_ref /\ Truthy(relating_ref)
                THEN (IF Raises(child_refs) THEN child_refs
                      ELSE PyList(child_refs.v \o rest.v))
                ELSE rest

\* the second loop (lines 530-537) from the i-th relationship on
RelatingGeometry(doc, seed, shape_aspect_ref, depth, sar_entities, i) ==
    IF i > Len(sar_entities) THEN PyList(<<>>)
    ELSE LET related_ref  == get_attribute_value(sar_entities[i], 2)
             relating_ref == get_attribute_value(sar_entities[i], 3)
             rest == RelatingGeometry(doc, seed, shape_aspect_ref, depth,
                                      sar_entities, i + 1)
             child_refs == get_associated_geometry(doc, seed, relating_ref,
                                                   depth + 1)
         IN  IF related_ref = shape_aspect_ref /\ Truthy(relating_ref)
                THEN (IF Raises(child_refs) THEN child_refs
                      ELSE IF Raises(rest) THEN rest
                      ELSE PyList(child_refs.v \o rest.v))
                ELSE rest

get_associated_geometry(doc, seed, shape_aspect_ref, depth) ==
    LET gisu_entities ==
            find_entities(doc.entities, doc.entities_by_type,
                          <<"GEOMETRIC_ITEM_SPECIFIC_USAGE">>)
        sar_entities ==
            find_entities(doc.entities, doc.entities_by_type,
                          <<"SHAPE_ASPECT_RELATIONSHIP">>)
        linked == SelectSeq(gisu_entities, LAMBDA gisu :
                      /\ get_attribute_value(gisu, 2) = shape_aspect_ref
                      /\ Truthy(get_attribute_value(gisu, 4)))
        geometry_refs == [i \in 1..Len(linked) |-> get_attribute_value(linked[i], 4)]
        relating == RelatingGeometry(doc, seed, shape_aspect_ref, depth,
                                     sar_entities, 1)
    IN  IF ~Truthy(shape_aspect_ref) \/ ~IsStr(shape_aspect_ref) THEN PyList(<<>>)
        ELSE IF depth > Len(sar_entities) THEN Raise("RecursionError")
        ELSE IF Raises(relating) THEN relating
        ELSE ListOfSet(geometry_refs \o relating.v, seed)

\* 'word' in str(value).lower(), for the words a text of this model holds as
\* whole atoms
RECURSIVE Mentions(_, _)
Mentions(value, word) ==
    CASE IsStr(value)  -> \E i \in 1..Len(value.v) : UpperAtom(value.v[i]) = word
      [] IsList(value) -> \E i \in 1..Len(value.v) : Mentions(value.v[i], word)
      [] OTHER         -> FALSE

\* what a record holds before its annotation is placed (lines 187-192)
ZeroPosition == [x |-> PyInt(0), y |-> PyInt(0), z |-> PyInt(0)]
DefaultOrigin  == PyList(<<PyInt(0), PyInt(0), PyInt(0)>>)
DefaultNormal  == PyList(<<PyInt(0), PyInt(0), PyInt(-1)>>)
DefaultWriting == PyList(<<PyInt(1), PyInt(0), PyInt(0)>>)
DefaultPlane ==
    [origin |-> DefaultOrigin, normal |-> DefaultNormal,
     writing_direction |-> DefaultWriting]

(***************************************************************************)
(* Measured values: StepParser.get_numeric_value_from_entity               *)
(***************************************************************************)
\* the words of this model that end with the keyword of a pattern
LengthMeasureWords == {"LENGTH_MEASURE", "POSITIVE_LENGTH_MEASURE"}
PlaneAngleWords    == {"PLANE_ANGLE_MEASURE"}
WithUnitWords      == {"MEASURE_WITH_UNIT", "LENGTH_MEASURE_WITH_UNIT"}

\* the end of the match: text[s..] begins the group, its digits begin at d,
\* the number ends before f
NumberGroupEnd(text, s, d, e, f, closers) ==
    IF /\ e > d
       /\ SkipSpaces(text, f) <= Len(text)
       /\ text[SkipSpaces(text, f)] \in closers
       THEN Slice(text, s, f - 1) ELSE <<>>

\* the digits of the group: \d+\.?\d*
NumberGroupDigits(text, s, d, e, closers) ==
    NumberGroupEnd(text, s, d, e,
                   IF e <= Len(text) /\ text[e] = "."
                      THEN SkipDigits(text, e + 1) ELSE e,
                   closers)

\* the group from its first atom on: [-+]?
NumberGroupFrom(text, s, d, closers) ==
    NumberGroupDigits(text, s, d, SkipDigits(text, d), closers)

\* \s*([-+]?\d+\.?\d*)\s*[closers] matched at text[i..]: the text of the
\* group, empty when there is no match.  The greedy match is the only one:
\* what follows a shorter run of the number is a digit or the point.
NumberGroupAt(text, i, closers) ==
    NumberGroupFrom(text, SkipSpaces(text, i),
                    IF /\ SkipSpaces(text, i) <= Len(text)
                       /\ text[SkipSpaces(text, i)] \in {"-", "+"}
                       THEN SkipSpaces(text, i) + 1 ELSE SkipSpaces(text, i),
                    closers)

\* the first of two texts that is not empty
OrElse(group, rest) == IF group # <<>> THEN group ELSE rest

\* re.search(r'KEYWORD\s*\(\s*([-+]?\d+\.?\d*)\s*[,\)]', text, re.IGNORECASE)
\* from text[i..], for the words ending with KEYWORD (lines 486, 488)
RECURSIVE KeywordNumber(_, _, _)
KeywordNumber(text, words, i) ==
    IF i > Len(text) THEN <<>>
    ELSE OrElse(IF /\ UpperAtom(text[i]) \in words
                   /\ SkipSpaces(text, i + 1) <= Len(text)
                   /\ text[SkipSpaces(text, i + 1)] = "("
                   THEN NumberGroupAt(text, SkipSpaces(text, i + 1) + 1, {",", ")"})
                   ELSE <<>>,
                KeywordNumber(text, words, i + 1))

\* r'MEASURE_WITH_UNIT\s*\([^(]*\(\s*([-+]?\d+\.?\d*)\s*\)' (line 490): the
\* number stands behind the next parenthesis that opens
RECURSIVE WithUnitNumber(_, _)
WithUnitNumber(text, i) ==
    IF i > Len(text) THEN <<>>
    ELSE OrElse(IF /\ UpperAtom(text[i]) \in WithUnitWords
                   /\ SkipSpaces(text, i + 1) <= Len(text)
                   /\ text[SkipSpaces(text, i + 1)] = "("
                   /\ FindAtom(text, "(", SkipSpaces(text, i + 1) + 1) # 0
                   THEN NumberGroupAt(text,
                            FindAtom(text, "(", SkipSpaces(text, i + 1) + 1) + 1,
                            {")"})
                   ELSE <<>>,
                WithUnitNumber(text, i + 1))

\* r'\(\s*([-+]?\d+\.?\d*)\s*[,\)]' (line 492): any number behind a
\* parenthesis that opens
RECURSIVE ParenNumber(_, _)
ParenNumber(text, i) ==
    IF i > Len(text) THEN <<>>
    ELSE OrElse(IF text[i] = "(" THEN NumberGroupAt(text, i + 1, {",", ")"})
                ELSE <<>>,
                ParenNumber(text, i + 1))

\* float(val_str) of the group a pattern matched; float() accepts every
\* group, and no group means that no pattern matched
GroupValue(group) ==
    IF group = <<>> THEN PyNone ELSE PyFloat(FloatValue(group))

\* the loop over the patterns (lines 495-505): the group of the first
\* pattern that matches
RawNumber(raw_line) ==
    GroupValue(OrElse(KeywordNumber(raw_line, LengthMeasureWords, 1),
               OrElse(KeywordNumber(raw_line, PlaneAngleWords, 1),
               OrElse(WithUnitNumber(raw_line, 1), ParenNumber(raw_line, 1)))))

\* float(item) of the first number of a list, None when it holds none
RECURSIVE FirstNumber(_, _)
FirstNumber(items, i) ==
    IF i > Len(items) THEN PyNone
    ELSE IF IsNumber(items[i]) THEN PyFloat(AsFloat(items[i]))
    ELSE FirstNumber(items, i + 1)

RECURSIVE get_numeric_value_from_entity(_, _, _)
RECURSIVE NumericAttribute(_, _, _, _)
RECURSIVE FollowedNumeric(_, _, _, _, _)

\* what the loop does with the value a followed reference gave (lines
\* 471-474): an exception leaves the loop, None goes on to the next attribute
FollowedNumeric(doc, entity, i, depth, val) ==
    IF val # PyNone THEN val
    ELSE NumericAttribute(doc, entity, i + 1, depth)

\* the loop over parsed_attributes from attribute i (lines 465-478): the
\* value it returns, None when it ends
NumericAttribute(doc, entity, i, depth) ==
    IF i > Len(entity.parsed_attributes) THEN PyNone
    ELSE CASE IsNumber(entity.parsed_attributes[i])
                -> PyFloat(AsFloat(entity.parsed_attributes[i]))
           [] /\ IsRef(entity.parsed_attributes[i])
              /\ get_entity(doc.entities, entity.parsed_attributes[i].v) # PyNone
                -> FollowedNumeric(doc, entity, i, depth,
                       get_numeric_value_from_entity(doc,
                           get_entity(doc.entities, entity.parsed_attributes[i].v),
                           depth + 1))
           [] /\ IsList(entity.parsed_attributes[i])
              /\ FirstNumber(entity.parsed_attributes[i].v, 1) # PyNone
                -> FirstNumber(entity.parsed_attributes[i].v, 1)
           [] OTHER
                -> NumericAttribute(doc, entity, i + 1, depth)

\* the value the attributes give, or else the one the raw line gives
NumericOrRaw(entity, val) ==
    IF val # PyNone THEN val ELSE RawNumber(entity.raw_line)

\* StepParser.get_numeric_value_from_entity.  The function follows a
\* reference before it looks at its own raw line.  A call nested deeper than
\* the document has entities has entered some entity twice, and then enters
\* it without end: the interpreter ends that with RecursionError.
get_numeric_value_from_entity(doc, entity, depth) ==
    IF depth > Cardinality(DOMAIN doc.entities) THEN Raise("RecursionError")
    ELSE NumericOrRaw(entity, NumericAttribute(doc, entity, 1, depth))

(***************************************************************************)
(* Values and tolerances of a dimension (DimensionExtractor)               *)
(***************************************************************************)
\* (nominal, upper, lower, tol_type)
NoValues == [nominal |-> PyNone, upper |-> PyNone, lower |-> PyNone,
             tol_type |-> PyNone]

\* the branches on the name of a measure (lines 378-396)
NamedMeasure(acc, name_attr, value) ==
    IF IsStr(name_attr) /\ Mentions(name_attr, "NOMINAL")
       THEN [acc EXCEPT !.nominal = value]
    ELSE IF IsStr(name_attr) /\ Mentions(name_attr, "UPPER")
       THEN [acc EXCEPT !.upper = value, !.tol_type = PyStr(<<"limits">>)]
    ELSE IF IsStr(name_attr) /\ Mentions(name_attr, "LOWER")
       THEN [acc EXCEPT !.lower = value, !.tol_type = PyStr(<<"limits">>)]
    ELSE IF acc.nominal = PyNone THEN [acc EXCEPT !.nominal = value]
    ELSE acc

RECURSIVE MeasuresOf(_, _, _, _)
RECURSIVE MeasuredAs(_, _, _, _, _, _)

\* the body of the loop once the value of the measure is known
MeasuredAs(doc, measures, i, acc, measure, value) ==
    IF Raises(value) THEN value
    ELSE IF value = PyNone THEN MeasuresOf(doc, measures, i + 1, acc)
    ELSE MeasuresOf(doc, measures, i + 1,
                    NamedMeasure(acc, get_attribute_value(measure, 0), value))

\* the loop over the measures of _parse_shape_dimension_repr (lines 364-396)
MeasuresOf(doc, measures, i, acc) ==
    IF i > Len(measures) THEN acc
    ELSE IF \/ ~Truthy(measures[i]) \/ ~IsStr(measures[i])
            \/ get_entity(doc.entities, measures[i].v) = PyNone
       THEN MeasuresOf(doc, measures, i + 1, acc)
    ELSE MeasuredAs(doc, measures, i, acc,
                    get_entity(doc.entities, measures[i].v),
                    get_numeric_value_from_entity(doc,
                        get_entity(doc.entities, measures[i].v), 0))

\* DimensionExtractor._parse_shape_dimension_repr
parse_shape_dimension_repr(doc, sdr) ==
    LET measures == get_attribute_value(sdr, 1)
    IN  MeasuresOf(doc,
                   IF IsList(measures) THEN measures.v
                   ELSE IF Truthy(measures) THEN <<measures>> ELSE <<>>,
                   1, NoValues)

\* one bound of _parse_tolerance_value (lines 499-507): [v |-> the value],
\* or the exception
ToleranceBound(doc, ref) ==
    IF ~Truthy(ref) THEN [v |-> PyNone]
    ELSE IF Raises(get_entity_of(doc, ref)) THEN get_entity_of(doc, ref)
    ELSE IF get_entity_of(doc, ref) = PyNone THEN [v |-> PyNone]
    ELSE [v |-> get_numeric_value_from_entity(doc, get_entity_of(doc, ref), 0)]

\* (upper, lower), or the exception one of the bounds raised
ToleranceBounds(upper, lower) ==
    IF Raises(upper) THEN upper
    ELSE IF Raises(upper.v) THEN upper.v
    ELSE IF Raises(lower) THEN lower
    ELSE IF Raises(lower.v) THEN lower.v
    ELSE [upper |-> upper.v, lower |-> lower.v]

\* DimensionExtractor._parse_tolerance_value
parse_tolerance_value(doc, tol_val) ==
    ToleranceBounds(ToleranceBound(doc, get_attribute_value(tol_val, 0)),
                    ToleranceBound(doc, get_attribute_value(tol_val, 1)))

RECURSIVE FirstRepresentation(_, _, _, _)
\* the loop over DIMENSIONAL_CHARACTERISTIC_REPRESENTATION (lines 307-320):
\* the first one that names the dimension and a representation that exists
FirstRepresentation(doc, dim_entity_id, dcr_entities, i) ==
    IF i > Len(dcr_entities) THEN NoValues
    ELSE IF \/ ~IsStr(get_attribute_value(dcr_entities[i], 0))
            \/ get_attribute_value(dcr_entities[i], 0).v # dim_entity_id
            \/ ~Truthy(get_attribute_value(dcr_entities[i], 1))
       THEN FirstRepresentation(doc, dim_entity_id, dcr_entities, i + 1)
    ELSE IF Raises(get_entity_of(doc, get_attribute_value(dcr_entities[i], 1)))
       THEN get_entity_of(doc, get_attribute_value(dcr_entities[i], 1))
    ELSE IF get_entity_of(doc, get_attribute_value(dcr_entities[i], 1)) = PyNone
       THEN FirstRepresentation(doc, dim_entity_id, dcr_entities, i + 1)
    ELSE parse_shape_dimension_repr(doc,
             get_entity_of(doc, get_attribute_value(dcr_entities[i], 1)))

\* what a PLUS_MINUS_TOLERANCE does to the values (lines 331-338)
WithTolerance(acc, bounds) ==
    IF Raises(bounds) THEN bounds
    ELSE [acc EXCEPT
            !.upper = IF bounds.upper # PyNone THEN bounds.upper ELSE @,
            !.lower = IF bounds.lower # PyNone THEN bounds.lower ELSE @,
            !.tol_type = PyStr(<<"plus_minus">>)]

RECURSIVE PlusMinus(_, _, _, _, _)
\* the loop over PLUS_MINUS_TOLERANCE (lines 323-338)
PlusMinus(doc, dim_entity_id, pm_entities, i, acc) ==
    IF Raises(acc) \/ i > Len(pm_entities) THEN acc
    ELSE IF \/ ~IsStr(get_attribute_value(pm_entities[i], 1))
            \/ get_attribute_value(pm_entities[i], 1).v # dim_entity_id
            \/ ~Truthy(get_attribute_value(pm_entities[i], 0))
       THEN PlusMinus(doc, dim_entity_id, pm_entities, i + 1, acc)
    ELSE IF Raises(get_entity_of(doc, get_attribute_value(pm_entities[i], 0)))
       THEN get_entity_of(doc, get_attribute_value(pm_entities[i], 0))
    ELSE IF get_entity_of(doc, get_attribute_value(pm_entities[i], 0)) = PyNone
       THEN PlusMinus(doc, dim_entity_id, pm_entities, i + 1, acc)
    ELSE PlusMinus(doc, dim_entity_id, pm_entities, i + 1,
             WithTolerance(acc, parse_tolerance_value(doc,
                 get_entity_of(doc, get_attribute_value(pm_entities[i], 0)))))

\* DimensionExtractor._get_dimension_value
get_dimension_value(doc, dim_entity_id) ==
    PlusMinus(doc, dim_entity_id,
              find_entities(doc.entities, doc.entities_by_type,
                            <<"PLUS_MINUS_TOLERANCE">>),
              1,
              FirstRepresentation(doc, dim_entity_id,
                  find_entities(doc.entities, doc.entities_by_type,
                                <<"DIMENSIONAL_CHARACTERISTIC_REPRESENTATION">>),
                  1))

(***************************************************************************)
(* The text of a dimension: _format_dimension_text                         *)
(***************************************************************************)
\* the characters U+2300 (diameter sign), U+00B1 (plus-minus sign) and
\* U+00B0 (degree sign)
DiameterSign  == "U+2300"
PlusMinusSign == "U+00B1"
DegreeSign    == "U+00B0"

DigitAtom(d) ==
    CASE d = 0 -> "0" [] d = 1 -> "1" [] d = 2 -> "2" [] d = 3 -> "3"
      [] d = 4 -> "4" [] d = 5 -> "5" [] d = 6 -> "6" [] d = 7 -> "7"
      [] d = 8 -> "8" [] d = 9 -> "9"

RECURSIVE DigitsOf(_)
\* the decimal digits of a natural number
DigitsOf(n) ==
    IF n < 10 THEN <<DigitAtom(n)>> ELSE Append(DigitsOf(n \div 10), DigitAtom(n % 10))

Abs(n) == IF n < 0 THEN 0 - n ELSE n

\* the hundredths nearest to n thousandths.  A tie is decided by the binary
\* float nearest to the decimal, which this model does not hold; it is
\* written here as round-half-even.
Hundredths(n) ==
    LET q == n \div 10
        r == n % 10
    IN  IF r > 5 \/ (r = 5 /\ q % 2 = 1) THEN q + 1 ELSE q

\* f"{x:.2f}" of a float of n thousandths
Format2f(n) ==
    (IF n < 0 THEN <<"-">> ELSE <<>>)
    \o DigitsOf(Hundredths(Abs(n)) \div 100)
    \o <<".", DigitAtom((Hundredths(Abs(n)) \div 10) % 10),
         DigitAtom(Hundredths(Abs(n)) % 10)>>

\* DimensionExtractor._format_dimension_text; unit is a text
format_dimension_text(value, dim_type, upper, lower, unit) ==
    IF value = PyNone THEN <<>>
    ELSE (CASE dim_type = "diameter" -> <<DiameterSign>>
            [] dim_type = "radius"   -> <<"R">>
            [] OTHER                 -> <<>>)
         \o Format2f(value.v)
         \o (IF upper # PyNone /\ lower # PyNone
                THEN (IF Abs(upper.v) = Abs(lower.v)
                         THEN <<SP, PlusMinusSign>> \o Format2f(Abs(upper.v))
                         ELSE <<SP, "+">> \o Format2f(upper.v)
                              \o <<"/">> \o Format2f(lower.v))
             ELSE IF upper # PyNone THEN <<SP, "+">> \o Format2f(upper.v)
             ELSE IF lower # PyNone THEN <<SP>> \o Format2f(lower.v)
             ELSE <<>>)
         \o <<SP>> \o unit

\* the tolerance entry of a record (lines 177-181)
ToleranceOf(values) ==
    IF values.upper # PyNone \/ values.lower # PyNone
       THEN [type  |-> IF values.tol_type # PyNone THEN values.tol_type
                       ELSE PyStr(<<"symmetric">>),
             upper |-> values.upper, lower |-> values.lower]
       ELSE PyNone

\* the record of _extract_dimensional_size (lines 172-194), cut to the
\* fields this model decides: tolerance_class, target_geometry and
\* leader_lines are left out.  Any exception inside the method is caught
\* and the dimension is dropped.
SizeRecord(entity, dim_type, values, geometry_refs) ==
    IF Raises(values) \/ Raises(geometry_refs) THEN PyNone
    ELSE [id |-> entity.id, type |-> dim_type,
          value |-> IF values.nominal # PyNone THEN values.nominal ELSE PyFloat(0),
          unit |-> <<"mm">>,
          tolerance |-> ToleranceOf(values),
          associated_geometry |-> geometry_refs,
          annotation_plane |-> DefaultPlane, position |-> ZeroPosition,
          text |-> format_dimension_text(values.nominal, dim_type, values.upper,
                                         values.lower, <<"mm">>)]

\* DimensionExtractor._extract_dimensional_size
extract_dimensional_size(doc, seed, entity) ==
    LET size_type == get_attribute_value(entity, 1)
    IN  SizeRecord(entity,
                   IF /\ Truthy(size_type)
                      /\ Mentions(size_type, "DIAMETER")
                      /\ ~Mentions(size_type, "RADIUS")
                      THEN "diameter" ELSE "radius",
                   get_dimension_value(doc, entity.id),
                   get_associated_geometry(doc, seed,
                                           get_attribute_value(entity, 0), 0))

\* the record of _extract_dimensional_location (lines 227-242) and of
\* _extract_angular_location (lines 270-283), cut in the same way; these
\* records start without an annotation_plane
LocationRecord(entity, dim_type, values, refs1, refs2) ==
    IF Raises(values) \/ Raises(refs1) \/ Raises(refs2) THEN PyNone
    ELSE [id |-> entity.id, type |-> dim_type,
          value |-> IF values.nominal # PyNone THEN values.nominal ELSE PyFloat(0),
          unit |-> IF dim_type = "angular" THEN <<"deg">> ELSE <<"mm">>,
          tolerance |-> ToleranceOf(values),
          associated_geometry |-> PyList(refs1.v \o refs2.v),
          position |-> ZeroPosition,
          text |-> format_dimension_text(values.nominal, dim_type, values.upper,
                       values.lower,
                       IF dim_type = "angular" THEN <<DegreeSign>> ELSE <<"mm">>)]

\* _extract_dimensional_location (dim_type linear) and
\* _extract_angular_location (dim_type angular)
extract_location(doc, seed, entity, dim_type) ==
    LocationRecord(entity, dim_type, get_dimension_value(doc, entity.id),
        IF Truthy(get_attribute_value(entity, 2))
           THEN get_associated_geometry(doc, seed, get_attribute_value(entity, 2), 0)
           ELSE PyList(<<>>),
        IF Truthy(get_attribute_value(entity, 3))
           THEN get_associated_geometry(doc, seed, get_attribute_value(entity, 3), 0)
           ELSE PyList(<<>>))

\* the records that are not None, in order
Kept(records) == SelectSeq(records, LAMBDA r : r # PyNone)

\* DimensionExtractor.extract_dimensions
extract_dimensions(doc, seed) ==
    LET Found(type_name) ==
            find_entities(doc.entities, doc.entities_by_type, type_name)
        sizes     == Found(<<"DIMENSIONAL_SIZE">>)
        locations == Found(<<"DIMENSIONAL_LOCATION">>)
        angles    == Found(<<"ANGULAR_LOCATION">>)
    IN  Kept([i \in 1..Len(sizes) |-> extract_dimensional_size(doc, seed, sizes[i])])
        \o Kept([i \in 1..Len(locations) |->
                    extract_location(doc, seed, locations[i], "linear")])
        \o Kept([i \in 1..Len(angles) |->
                    extract_location(doc, seed, angles[i], "angular")])

\* GDT_SYMBOLS (lines 26-41): tolerance entity type -> (type, symbol); a
\* symbol is written by the code points of its characters
GDT_SYMBOLS ==
    << [key |-> <<"FLATNESS_TOLERANCE">>,
        value |-> [type |-> "flatness", symbol |-> <<"U+23E5">>]],
       [key |-> <<"STRAIGHTNESS_TOLERANCE">>,
        value |-> [type |-> "straightness", symbol |-> <<"U+23E4">>]],
       [key |-> <<"CIRCULARITY_TOLERANCE">>,
        value |-> [type |-> "circularity", symbol |-> <<"U+25CB">>]],
       [key |-> <<"CYLINDRICITY_TOLERANCE">>,
        value |-> [type |-> "cylindricity", symbol |-> <<"U+232D">>]],
       [key |-> <<"LINE_PROFILE_TOLERANCE">>,
        value |-> [type |-> "profile_line", symbol |-> <<"U+2312">>]],
       [key |-> <<"SURFACE_PROFILE_TOLERANCE">>,
        value |-> [type |-> "profile_surface", symbol |-> <<"U+2313">>]],
       [key |-> <<"PARALLELISM_TOLERANCE">>,
        value |-> [type |-> "parallelism", symbol |-> <<"U+2225">>]],
       [key |-> <<"PERPENDICULARITY_TOLERANCE">>,
        value |-> [type |-> "perpendicularity", symbol |-> <<"U+22A5">>]],
       [key |-> <<"ANGULARITY_TOLERANCE">>,
        value |-> [type |-> "angularity", symbol |-> <<"U+2220">>]],
       [key |-> <<"POSITION_TOLERANCE">>,
        value |-> [type |-> "position", symbol |-> <<"U+2316">>]],
       [key |-> <<"CONCENTRICITY_TOLERANCE">>,
        value |-> [type |-> "concentricity", symbol |-> <<"U+25CE">>]],
       [key |-> <<"SYMMETRY_TOLERANCE">>,
        value |-> [type |-> "symmetry", symbol |-> <<"U+232F">>]],
       [key |-> <<"CIRCULAR_RUNOUT_TOLERANCE">>,
        value |-> [type |-> "circular_runout", symbol |-> <<"U+2197">>]],
       [key |-> <<"TOTAL_RUNOUT_TOLERANCE">>,
        value |-> [type |-> "total_runout", symbol |-> <<"U+2197", "U+2197">>]],
       [key |-> <<"COAXIALITY_TOLERANCE">>,
        value |-> [type |-> "coaxiality", symbol |-> <<"U+25CE">>]] >>

(***************************************************************************)
(* Geometric tolerances (ToleranceExtractor)                               *)
(***************************************************************************)
\* the label a str of _get_datum_label holds, or None
LabelOf(datum) ==
    IF datum # PyNone /\ has_type(datum, <<"DATUM">>)
          /\ IsStr(get_attribute_value(datum, 4))
       THEN get_attribute_value(datum, 4) ELSE PyNone

\* ToleranceExtractor._get_datum_label
get_datum_label(doc, datum_ref) ==
    IF Raises(get_entity_of(doc, datum_ref)) THEN get_entity_of(doc, datum_ref)
    ELSE LabelOf(get_entity_of(doc, datum_ref))

RECURSIVE resolve_datum_reference(_, _, _)
RECURSIVE SystemLabels(_, _, _, _, _)
RECURSIVE LabelledNext(_, _, _, _, _, _)

\* the loop over the datums of a DATUM_SYSTEM once a label is resolved
LabelledNext(doc, d_refs, i, depth, labels, label) ==
    IF Raises(label) THEN label
    ELSE SystemLabels(doc, d_refs, i + 1, depth,
                      IF Truthy(label) THEN Append(labels, label.v) ELSE labels)

\* the loop over the datums of a DATUM_SYSTEM (lines 1099-1104): '-'.join of
\* the labels, None when there is none
SystemLabels(doc, d_refs, i, depth, labels) ==
    IF i > Len(d_refs)
       THEN (IF labels = <<>> THEN PyNone ELSE PyStr(JoinWith(labels, <<"-">>)))
    ELSE IF ~IsRef(d_refs[i]) THEN SystemLabels(doc, d_refs, i + 1, depth, labels)
    ELSE LabelledNext(doc, d_refs, i, depth, labels,
                      resolve_datum_reference(doc, d_refs[i].v, depth + 1))

\* the branches of _resolve_datum_reference on the entity the reference names
ResolvedAs(doc, ref, drc, depth) ==
    IF drc = PyNone THEN PyNone
    ELSE IF /\ has_type(drc, <<"DATUM_REFERENCE_COMPARTMENT">>)
            /\ Truthy(get_attribute_value(drc, 4))
       THEN get_datum_label(doc, get_attribute_value(drc, 4))
    ELSE IF /\ has_type(drc, <<"DATUM_SYSTEM">>)
            /\ IsList(get_attribute_value(drc, 4))
       THEN SystemLabels(doc, get_attribute_value(drc, 4).v, 1, depth, <<>>)
    ELSE IF has_type(drc, <<"DATUM">>) THEN get_datum_label(doc, PyStr(ref))
    ELSE PyNone

\* ToleranceExtractor._resolve_datum_reference of a str.  A call nested
\* deeper than the document has entities has entered one DATUM_SYSTEM twice
\* and enters it without end (RecursionError).
resolve_datum_reference(doc, ref, depth) ==
    IF depth > Cardinality(DOMAIN doc.entities) THEN Raise("RecursionError")
    ELSE ResolvedAs(doc, ref, get_entity(doc.entities, ref), depth)

\* the references among the items of a list
RefItems(items) == SelectSeq(items, LAMBDA item : IsRef(item))

RECURSIVE ListRefItems(_, _)
\* the references among the items of the lists among the attributes
ListRefItems(attrs, i) ==
    IF i > Len(attrs) THEN <<>>
    ELSE (IF IsList(attrs[i]) THEN RefItems(attrs[i].v) ELSE <<>>)
         \o ListRefItems(attrs, i + 1)

RECURSIVE ResolvedRefs(_, _, _, _, _)
RECURSIVE ResolvedNext(_, _, _, _, _, _)

\* one of the three loops of _get_datum_references once a label is resolved:
\* a label is appended when it is truthy and, in a loop that tests it, new
ResolvedNext(doc, refs, i, unique, datum_refs, label) ==
    IF Raises(label) THEN label
    ELSE ResolvedRefs(doc, refs, i + 1, unique,
             IF /\ Truthy(label)
                /\ ~(unique /\ \E n \in 1..Len(datum_refs.v) : datum_refs.v[n] = label)
                THEN PyList(Append(datum_refs.v, label)) ELSE datum_refs)

\* a loop of _get_datum_references over references (PyStr values)
ResolvedRefs(doc, refs, i, unique, datum_refs) ==
    IF Raises(datum_refs) \/ i > Len(refs) THEN datum_refs
    ELSE ResolvedNext(doc, refs, i, unique, datum_refs,
                      resolve_datum_reference(doc, refs[i].v, 0))

\* the words of this model that end with the keyword of the pattern
DatumReferenceWords == {"GEOMETRIC_TOLERANCE_WITH_DATUM_REFERENCE"}

\* re.search(r'GEOMETRIC_TOLERANCE_WITH_DATUM_REFERENCE\s*\(\s*\(([^)]+)\)',
\* raw_line) from text[i..] (line 1062): the group, empty without a match
RECURSIVE DatumReferenceGroup(_, _)
DatumReferenceGroup(text, i) ==
    IF i > Len(text) THEN <<>>
    ELSE OrElse(IF /\ text[i] \in DatumReferenceWords
                   /\ At(text, SkipSpaces(text, i + 1), "(")
                   /\ At(text, SkipSpaces(text, SkipSpaces(text, i + 1) + 1), "(")
                   /\ FindAtom(text, ")",
                          SkipSpaces(text, SkipSpaces(text, i + 1) + 1) + 1)
                      > SkipSpaces(text, SkipSpaces(text, i + 1) + 1) + 1
                   THEN Slice(text,
                              SkipSpaces(text, SkipSpaces(text, i + 1) + 1) + 1,
                              FindAtom(text, ")",
                                  SkipSpaces(text, SkipSpaces(text, i + 1) + 1) + 1)
                              - 1)
                   ELSE <<>>,
                DatumReferenceGroup(text, i + 1))

\* the references of a list of texts, as str values
StrRefs(texts) == [i \in 1..Len(texts) |-> PyStr(texts[i])]

\* the last attribute when there are five or more and it is a list (lines
\* 1073-1075): its references
LastListRefs(attrs) ==
    IF Len(attrs) >= 5 /\ IsList(attrs[Len(attrs)])
       THEN RefItems(attrs[Len(attrs)].v) ELSE <<>>

\* ToleranceExtractor._get_datum_references: a PyList of labels
get_datum_references(doc, entity) ==
    ResolvedRefs(doc, LastListRefs(entity.parsed_attributes), 1, TRUE,
        ResolvedRefs(doc,
            StrRefs(References(DatumReferenceGroup(entity.raw_line, 1), 1)), 1, TRUE,
            ResolvedRefs(doc,
                IF has_type(entity, <<"GEOMETRIC_TOLERANCE_WITH_DATUM_REFERENCE">>)
                   THEN ListRefItems(entity.parsed_attributes, 1) ELSE <<>>,
                1, FALSE, PyList(<<>>))))

\* the words of this model that hold MAXIMUM_MATERIAL, LEAST_MATERIAL,
\* CYLINDRICAL or DIAMETER when written in capitals
MaximumMaterialWords == {"MAXIMUM_MATERIAL_REQUIREMENT", "MAXIMUM_MATERIAL"}
LeastMaterialWords   == {"LEAST_MATERIAL_REQUIREMENT", "LEAST_MATERIAL"}
ZoneWords            == {"CYLINDRICAL", "DIAMETER"}

\* 'WORD' in text.upper()
HoldsWord(text, words) == \E i \in 1..Len(text) : UpperAtom(text[i]) \in words

\* the characters U+24C2 and U+24C1 (circled M and L)
MaximumMaterialSign == "U+24C2"
LeastMaterialSign   == "U+24C1"

RECURSIVE AttributeModifier(_, _)
\* the loop over the attributes of _get_material_modifier (lines 1127-1133):
\* the modifier it returns, empty when it ends
AttributeModifier(attrs, i) ==
    IF i > Len(attrs) THEN <<>>
    ELSE IF IsStr(attrs[i]) /\ (\/ HoldsWord(attrs[i].v, MaximumMaterialWords)
                                \/ Upper(attrs[i].v) = <<"MMC">>)
       THEN <<MaximumMaterialSign>>
    ELSE IF IsStr(attrs[i]) /\ (\/ HoldsWord(attrs[i].v, LeastMaterialWords)
                                \/ Upper(attrs[i].v) = <<"LMC">>)
       THEN <<LeastMaterialSign>>
    ELSE AttributeModifier(attrs, i + 1)

\* ToleranceExtractor._get_material_modifier
get_material_modifier(entity) ==
    IF /\ has_type(entity, <<"GEOMETRIC_TOLERANCE_WITH_MODIFIERS">>)
       /\ AttributeModifier(entity.parsed_attributes, 1) # <<>>
       THEN AttributeModifier(entity.parsed_attributes, 1)
    ELSE IF HoldsWord(entity.raw_line, MaximumMaterialWords)
       THEN <<MaximumMaterialSign>>
    ELSE IF HoldsWord(entity.raw_line, LeastMaterialWords)
       THEN <<LeastMaterialSign>>
    ELSE <<>>

\* ToleranceExtractor._get_zone_modifier
get_zone_modifier(entity) ==
    IF HoldsWord(entity.raw_line, ZoneWords) THEN <<DiameterSign>> ELSE <<>>

\* ToleranceExtractor._get_associated_geometry
tolerance_associated_geometry(doc, seed, shape_ref) ==
    LET gisu_entities ==
            find_entities(doc.entities, doc.entities_by_type,
                          <<"GEOMETRIC_ITEM_SPECIFIC_USAGE">>)
        linked == SelectSeq(gisu_entities, LAMBDA gisu :
                      /\ get_attribute_value(gisu, 2) = shape_ref
                      /\ Truthy(get_attribute_value(gisu, 4)))
    IN  IF ~Truthy(shape_ref) \/ ~IsStr(shape_ref) THEN PyList(<<>>)
        ELSE ListOfSet([i \in 1..Len(linked) |-> get_attribute_value(linked[i], 4)],
                       seed)

\* f"{x:.3f}" of a float of n thousandths
Format3f(n) ==
    (IF n < 0 THEN <<"-">> ELSE <<>>)
    \o DigitsOf(Abs(n) \div 1000)
    \o <<".", DigitAtom((Abs(n) \div 100) % 10), DigitAtom((Abs(n) \div 10) % 10),
         DigitAtom(Abs(n) % 10)>>

\* the texts of a list of str values
TextsOf(values) == [i \in 1..Len(values) |-> values[i].v]

\* ToleranceExtractor._format_fcf_text
format_fcf_text(symbol, value, zone_modifier, modifier, datum_refs) ==
    JoinWith(<<symbol>>
             \o (IF zone_modifier # <<>> THEN <<zone_modifier>> ELSE <<>>)
             \o <<Format3f(value.v)>>
             \o (IF modifier # <<>> THEN <<modifier>> ELSE <<>>)
             \o (IF datum_refs.v # <<>>
                    THEN << <<"|">>, JoinWith(TextsOf(datum_refs.v), <<SP, "|", SP>>) >>
                    ELSE <<>>),
             <<SP>>)

\* the value of a tolerance (lines 1000-1007)
MagnitudeOf(doc, mag_entity) ==
    IF Raises(mag_entity) THEN mag_entity
    ELSE IF mag_entity = PyNone THEN PyFloat(0)
    ELSE IF get_numeric_value_from_entity(doc, mag_entity, 0) = PyNone THEN PyFloat(0)
    ELSE get_numeric_value_from_entity(doc, mag_entity, 0)

\* _extract_tolerance with the default of GDT_SYMBOLS.get for every type
ToleranceRecord_unknown(entity, type_info, value, datum_refs, modifier, zone_modifier, geometry_refs) ==
    IF Raises(value) \/ Raises(datum_refs) \/ Raises(geometry_refs) THEN PyNone
    ELSE [id |-> entity.id, type |-> "unknown", value |-> value,
          unit |-> <<"mm">>, symbol |-> <<"?">>,
          modifier |-> modifier, zone_modifier |-> zone_modifier,
          datum_refs |-> datum_refs, associated_geometry |-> geometry_refs,
          position |-> ZeroPosition,
          text |-> format_fcf_text(<<"?">>, value, zone_modifier, modifier,
                                   datum_refs)]

\* the record of _extract_tolerance (lines 1027-1039); any exception inside
\* the method is caught and the tolerance is dropped
ToleranceRecord(entity, type_info, value, datum_refs, modifier, zone_modifier, geometry_refs) ==
    IF Raises(value) \/ Raises(datum_refs) \/ Raises(geometry_refs) THEN PyNone
    ELSE [id |-> entity.id, type |-> type_info.type, value |-> value,
          unit |-> <<"mm">>, symbol |-> type_info.symbol,
          modifier |-> modifier, zone_modifier |-> zone_modifier,
          datum_refs |-> datum_refs, associated_geometry |-> geometry_refs,
          position |-> ZeroPosition,
          text |-> format_fcf_text(type_info.symbol, value, zone_modifier,
                                   modifier, datum_refs)]

\* ToleranceExtractor._extract_tolerance for the n-th key of GDT_SYMBOLS
extract_tolerance(doc, seed, entity, n) ==
    ToleranceRecord(entity, GDT_SYMBOLS[n].value,
        MagnitudeOf(doc, IF Truthy(get_attribute_value(entity, 2))
                            THEN get_entity_of(doc, get_attribute_value(entity, 2))
                            ELSE PyNone),
        get_datum_references(doc, entity),
        get_material_modifier(entity), get_zone_modifier(entity),
        IF Truthy(get_attribute_value(entity, 3))
           THEN tolerance_associated_geometry(doc, seed, get_attribute_value(entity, 3))
           ELSE PyList(<<>>))

RECURSIVE TypedTolerances(_, _, _)
\* the first loop of extract_tolerances (lines 966-971) from the n-th key on
TypedTolerances(doc, seed, n) ==
    IF n > Len(GDT_SYMBOLS) THEN <<>>
    ELSE Kept([i \in 1..Len(find_entities(doc.entities, doc.entities_by_type,
                                          GDT_SYMBOLS[n].key)) |->
                  extract_tolerance(doc, seed,
                      find_entities(doc.entities, doc.entities_by_type,
                                    GDT_SYMBOLS[n].key)[i], n)])
         \o TypedTolerances(doc, seed, n + 1)

\* the first key of GDT_SYMBOLS that is a type of the entity, 0 without one
FirstToleranceType(entity) ==
    IF \E n \in 1..Len(GDT_SYMBOLS) : has_type(entity, GDT_SYMBOLS[n].key)
       THEN CHOOSE n \in 1..Len(GDT_SYMBOLS) :
               /\ has_type(entity, GDT_SYMBOLS[n].key)
               /\ \A m \in 1..(n - 1) : ~has_type(entity, GDT_SYMBOLS[m].key)
       ELSE 0

\* the tolerances with one more, unless it is None
WithKept(tolerances, tol) ==
    IF tol = PyNone THEN tolerances ELSE Append(tolerances, tol)

RECURSIVE LateTolerances(_, _, _, _, _)
\* the second loop (lines 974-985): an entity of type GEOMETRIC_TOLERANCE
\* whose id is not recorded is extracted under its first tolerance type
LateTolerances(doc, seed, gt_entities, i, tolerances) ==
    IF i > Len(gt_entities) THEN tolerances
    ELSE IF \/ FirstToleranceType(gt_entities[i]) = 0
            \/ \E t \in 1..Len(tolerances) : tolerances[t].id = gt_entities[i].id
       THEN LateTolerances(doc, seed, gt_entities, i + 1, tolerances)
    ELSE LateTolerances(doc, seed, gt_entities, i + 1,
             WithKept(tolerances,
                      extract_tolerance(doc, seed, gt_entities[i],
                                        FirstToleranceType(gt_entities[i]))))

\* ToleranceExtractor.extract_tolerances
extract_tolerances(doc, seed) ==
    LateTolerances(doc, seed,
                   find_entities(doc.entities, doc.entities_by_type,
                                 <<"GEOMETRIC_TOLERANCE">>),
                   1, TypedTolerances(doc, seed, 1))

(***************************************************************************)
(* Datums (DatumExtractor)                                                 *)
(***************************************************************************)
\* a == b of two decoded values (a number equals a number of its value)
PyEqual(a, b) ==
    IF IsNumber(a) /\ IsNumber(b) THEN AsFloat(a) = AsFloat(b) ELSE a = b

\* the capital letters, in the order of their code points
Letters ==
    << "A", "B", "C", "D", "E", "F", "G", "H", "I", "J", "K", "L", "M",
       "N", "O", "P", "Q", "R", "S", "T", "U", "V", "W", "X", "Y", "Z" >>

\* the words of this model that are not one letter, with their first letter
FirstLetters ==
    { <<"feature", "f">>, <<"Simple", "S">>, <<"Datum", "D">>, <<"datum", "d">> }

\* the first character of a word
FirstLetter(a) ==
    IF \E p \in FirstLetters : p[1] = a
       THEN (CHOOSE p \in FirstLetters : p[1] = a)[2]
       ELSE a

\* isinstance(attr, str) and len(attr) == 1 and attr.isupper()
IsUpperLetter(attr) ==
    /\ IsStr(attr) /\ Len(attr.v) = 1
    /\ \E n \in 1..Len(Letters) : Letters[n] = attr.v[1]

\* the characters that follow the capital letters, in the order of their
\* code points
AfterLetters == << "[", BSLASH, "]", "^", "_" >>

\* chr(ord('A') + n - 1); a character past those of the two tables is
\* written by its number
CharFromA(n) ==
    IF n = 0 THEN <<"@">>
    ELSE IF n <= Len(Letters) THEN <<Letters[n]>>
    ELSE IF n <= Len(Letters) + Len(AfterLetters)
       THEN <<AfterLetters[n - Len(Letters)]>>
    ELSE <<"chr">> \o DigitsOf(64 + n)

\* the end of [.\s]* from text[i]
RECURSIVE SkipDotsAndSpaces(_, _)
SkipDotsAndSpaces(text, i) ==
    IF i <= Len(text) /\ (text[i] = "." \/ IsSpace(text[i]))
       THEN SkipDotsAndSpaces(text, i + 1) ELSE i

\* (\d+|[A-Z]) under IGNORECASE at text[j]: the label of lines 1296-1298,
\* empty without a match.  The pattern gives back dots and blanks it took
\* only when no digit and no letter follows any of them, and then nothing
\* matches at a dot or a blank either.
GroupLabel(text, j) ==
    IF j > Len(text) THEN <<>>
    ELSE IF IsDigit(text[j])
       THEN CharFromA(DigitsValue(Slice(text, j, SkipDigits(text, j) - 1),
                              SkipDigits(text, j) - j))
    ELSE IF IsWord(text[j]) /\ text[j] # "_" THEN <<FirstLetter(text[j])>>
    ELSE <<>>

\* re.search(r'Datum[.\s]*(\d+|[A-Z])', text, re.IGNORECASE) from text[i],
\* for a text that holds the word Datum as a whole atom or not at all
RECURSIVE NameLabel(_, _)
NameLabel(text, i) ==
    IF i > Len(text) THEN <<>>
    ELSE OrElse(IF UpperAtom(text[i]) = "DATUM"
                   THEN GroupLabel(text, SkipDotsAndSpaces(text, i + 1))
                   ELSE <<>>,
                NameLabel(text, i + 1))

\* the search in str(name): the text of a str is itself, and the text of a
\* list holds the texts of its items with quotes and commas between them,
\* which no match spans; the text of any other value holds no word
RECURSIVE StrNameLabel(_)
RECURSIVE ItemsNameLabel(_, _)
ItemsNameLabel(items, i) ==
    IF i > Len(items) THEN <<>>
    ELSE OrElse(StrNameLabel(items[i]), ItemsNameLabel(items, i + 1))

StrNameLabel(name) ==
    CASE IsStr(name)  -> NameLabel(name.v, 1)
      [] IsList(name) -> ItemsNameLabel(name.v, 1)
      [] OTHER        -> <<>>

\* DatumExtractor._get_datum_geometry
get_datum_geometry(doc, seed, entity_id) ==
    LET gisu_entities ==
            find_entities(doc.entities, doc.entities_by_type,
                          <<"GEOMETRIC_ITEM_SPECIFIC_USAGE">>)
        iiru_entities ==
            find_entities(doc.entities, doc.entities_by_type,
                          <<"ITEM_IDENTIFIED_REPRESENTATION_USAGE">>)
        linked == SelectSeq(gisu_entities, LAMBDA gisu :
                      /\ get_attribute_value(gisu, 2) = PyStr(entity_id)
                      /\ Truthy(get_attribute_value(gisu, 4)))
        used == SelectSeq(iiru_entities, LAMBDA iiru :
                      get_attribute_value(iiru, 2) = PyStr(entity_id))
    IN  ListOfSet([i \in 1..Len(linked) |-> get_attribute_value(linked[i], 4)]
                  \o ListRefItems([i \in 1..Len(used) |->
                                      get_attribute_value(used[i], 4)], 1),
                  seed)

\* the record of a datum (lines 1258-1263 and 1305-1310): None without a
\* label or when the geometry look-up raised
DatumRecord(entity, label, geometry_refs) ==
    IF ~Truthy(label) \/ Raises(geometry_refs) THEN PyNone
    ELSE [id |-> entity.id, label |-> label, position |-> ZeroPosition,
          associated_geometry |-> geometry_refs]

\* the label of _extract_datum (lines 1243-1250)
DatumLabel(entity) ==
    IF /\ Truthy(get_attribute_value(entity, 4))
       /\ IsStr(get_attribute_value(entity, 4))
       THEN get_attribute_value(entity, 4)
    ELSE IF \E n \in 1..Len(entity.parsed_attributes) :
                IsUpperLetter(entity.parsed_attributes[n])
       THEN entity.parsed_attributes[
                CHOOSE n \in 1..Len(entity.parsed_attributes) :
                    /\ IsUpperLetter(entity.parsed_attributes[n])
                    /\ \A m \in 1..(n - 1) :
                           ~IsUpperLetter(entity.parsed_attributes[m])]
    ELSE get_attribute_value(entity, 4)

\* DatumExtractor._extract_datum
extract_datum(doc, seed, entity) ==
    DatumRecord(entity, DatumLabel(entity),
                IF Truthy(DatumLabel(entity))
                   THEN get_datum_geometry(doc, seed, entity.id)
                   ELSE PyList(<<>>))

RECURSIVE LinkedLabel(_, _, _, _)
\* the loop over SHAPE_ASPECT_RELATIONSHIP of _extract_datum_feature (lines
\* 1279-1288): the label of the first relating DATUM, None without one
LinkedLabel(doc, entity, sar_entities, i) ==
    IF i > Len(sar_entities) THEN PyNone
    ELSE IF get_attribute_value(sar_entities[i], 2) # PyStr(entity.id)
       THEN LinkedLabel(doc, entity, sar_entities, i + 1)
    ELSE IF Raises(get_entity_of(doc, get_attribute_value(sar_entities[i], 3)))
       THEN get_entity_of(doc, get_attribute_value(sar_entities[i], 3))
    ELSE IF /\ get_entity_of(doc, get_attribute_value(sar_entities[i], 3)) # PyNone
            /\ has_type(get_entity_of(doc, get_attribute_value(sar_entities[i], 3)),
                        <<"DATUM">>)
       THEN get_attribute_value(
                get_entity_of(doc, get_attribute_value(sar_entities[i], 3)), 4)
    ELSE LinkedLabel(doc, entity, sar_entities, i + 1)

\* the label of _extract_datum_feature once the loop has ended
FeatureLabel(linked, name) ==
    IF Raises(linked) \/ Truthy(linked) THEN linked
    ELSE IF StrNameLabel(name) # <<>> THEN PyStr(StrNameLabel(name))
    ELSE linked

\* the record of a datum feature; an exception drops it
FeatureRecord(doc, seed, entity, label) ==
    IF Raises(label) THEN PyNone
    ELSE DatumRecord(entity, label,
                     IF Truthy(label) THEN get_datum_geometry(doc, seed, entity.id)
                     ELSE PyList(<<>>))

\* DatumExtractor._extract_datum_feature
extract_datum_feature(doc, seed, entity) ==
    FeatureRecord(doc, seed, entity,
        FeatureLabel(LinkedLabel(doc, entity,
                         find_entities(doc.entities, doc.entities_by_type,
                                       <<"SHAPE_ASPECT_RELATIONSHIP">>), 1),
                     get_attribute_value(entity, 0)))

RECURSIVE WithFeatures(_, _, _)
\* the second loop of extract_datums (lines 1227-1234): a datum feature is
\* appended unless a datum recorded before it carries its label
WithFeatures(features, i, datums) ==
    IF i > Len(features) THEN datums
    ELSE WithFeatures(features, i + 1,
             IF \/ features[i] = PyNone
                \/ \E n \in 1..Len(datums) :
                       PyEqual(datums[n].label, features[i].label)
                THEN datums ELSE Append(datums, features[i]))

\* the first loop of extract_datums (lines 1220-1224), None included
EachDatum(doc, seed, datum_entities) ==
    [i \in 1..Len(datum_entities) |-> extract_datum(doc, seed, datum_entities[i])]

\* the datum features of the second loop, None included
EachFeature(doc, seed, datum_feature_entities) ==
    [i \in 1..Len(datum_feature_entities) |->
        extract_datum_feature(doc, seed, datum_feature_entities[i])]

\* DatumExtractor.extract_datums
extract_datums(doc, seed) ==
    WithFeatures(EachFeature(doc, seed,
                     find_entities(doc.entities, doc.entities_by_type,
                                   <<"DATUM_FEATURE">>)), 1,
                 Kept(EachDatum(doc, seed,
                     find_entities(doc.entities, doc.entities_by_type,
                                   <<"DATUM">>))))

(***************************************************************************)
(* Passes over types no statement of this model defines.  Each is the      *)
(* sequence of its look-ups; a record is cut to the id of its entity, and  *)
(* the tests by which a pass drops an entity it found are left out.        *)
(***************************************************************************)
Records(doc, type_names) ==
    LET found == FindEach(doc, type_names)
    IN  [i \in 1..Len(found) |-> [id |-> found[i].id]]

\* SurfaceFinishExtractor.extract_surface_finishes
extract_surface_finishes(doc) ==
    Records(doc, << <<"SURFACE_TEXTURE_REPRESENTATION">>,
                    <<"SURFACE_TEXTURE_PARAMETER">>, <<"MACHINING_ALLOWANCE">>,
                    <<"TEXT_LITERAL">>, <<"ANNOTATION_TEXT_OCCURRENCE">>,
                    <<"DRAUGHTING_ANNOTATION_OCCURRENCE">> >>)

\* WeldSymbolExtractor.extract_weld_symbols
extract_weld_symbols(doc) ==
    Records(doc, << <<"WELD">>, <<"WELD_SYMBOL">>, <<"WELDING_PROCESS">>,
                    <<"TEXT_LITERAL">>, <<"ANNOTATION_TEXT_OCCURRENCE">> >>)

\* a detection that looks for the draughting types only
is_ap203_or_ap214_draughting(doc) ==
    FindEach(doc, << <<"ANNOTATION_OCCURRENCE">>,
                     <<"DRAUGHTING_ANNOTATION_OCCURRENCE">>,
                     <<"ANNOTATION_CURVE_OCCURRENCE">>,
                     <<"DRAUGHTING_MODEL_ITEM_ASSOCIATION">> >>) # <<>>

\* AP203AP214Extractor.is_ap203_or_ap214
is_ap203_or_ap214(doc) ==
    LET ap242_types == << <<"DIMENSIONAL_SIZE">>, <<"GEOMETRIC_TOLERANCE">>,
                          <<"DATUM_SYSTEM">> >>
        ap203_types == << <<"ANNOTATION_OCCURRENCE">>,
                          <<"DRAUGHTING_ANNOTATION_OCCURRENCE">>,
                          <<"ANNOTATION_CURVE_OCCURRENCE">>,
                          <<"DRAUGHTING_MODEL_ITEM_ASSOCIATION">> >>
    IN  IF FindEach(doc, ap242_types) # <<>> THEN FALSE
        ELSE FindEach(doc, ap203_types) # <<>>

\* AP203AP214Extractor.extract_graphical_dimensions
extract_graphical_dimensions(doc) ==
    Records(doc, << <<"ANNOTATION_OCCURRENCE">>, <<"ANNOTATION_TEXT_OCCURRENCE">>,
                    <<"DRAUGHTING_ANNOTATION_OCCURRENCE">>, <<"TEXT_LITERAL">> >>)

\* AP203AP214Extractor.extract_graphical_annotations
extract_graphical_annotations(doc) ==
    Records(doc, << <<"ANNOTATION_OCCURRENCE">>, <<"ANNOTATION_CURVE_OCCURRENCE">>,
                    <<"LEADER_CURVE">> >>)

(***************************************************************************)
(* Annotation planes and the presentation chain                            *)
(***************************************************************************)
\* placement.get(key, default) of a key held as PyNone when absent
OrDefault(value, default) == IF value = PyNone THEN default ELSE value

\* AnnotationExtractor.extract_annotation_planes from its i-th entity on;
\* planes is the dict built so far.  get_axis_placement is called outside
\* any try, so what it raises leaves the method
RECURSIVE extract_annotation_planes(_, _, _, _)
extract_annotation_planes(doc, ap_entities, i, planes) ==
    IF i > Len(ap_entities) THEN [planes |-> planes]
    ELSE LET entity   == ap_entities[i]
             name     == get_attribute_value(entity, 0)
             axis_ref == get_attribute_value(entity, 2)
             Plane(placement) ==
                 [id |-> entity.id,
                  name |-> IF Truthy(name) THEN name
                           ELSE PyStr(<<"PMI", SP, "PLANE">>),
                  origin |-> OrDefault(placement.origin, DefaultOrigin),
                  normal |-> OrDefault(placement.normal, DefaultNormal),
                  writing_direction |->
                      OrDefault(placement.x_axis, DefaultWriting)]
             With(placement) ==
                 IF Raises(placement) THEN placement
                 ELSE IF placement = PyNone
                    THEN extract_annotation_planes(doc, ap_entities, i + 1, planes)
                 ELSE extract_annotation_planes(doc, ap_entities, i + 1,
                          DictPut(planes, entity.id, Plane(placement)))
         IN  IF ~Truthy(axis_ref)
                THEN extract_annotation_planes(doc, ap_entities, i + 1, planes)
                ELSE With(get_axis_placement(doc, axis_ref))

\* the ANNOTATION_PLANE entities the method starts from (line 1465)
AnnotationPlaneEntities(doc) ==
    find_entities(doc.entities, doc.entities_by_type, <<"ANNOTATION_PLANE">>)

\* PresentationLinkExtractor._build_dmia_index from its i-th entity on; a
\* list is no dict key (TypeError: unhashable type)
RECURSIVE build_dmia_index(_, _, _)
build_dmia_index(dmia_entities, i, dmia_cache) ==
    IF i > Len(dmia_entities) THEN [cache |-> dmia_cache]
    ELSE LET item_ref == get_attribute_value(dmia_entities[i], 2) IN
         IF ~Truthy(item_ref)
            THEN build_dmia_index(dmia_entities, i + 1, dmia_cache)
         ELSE IF IsList(item_ref) THEN Raise("TypeError")
         ELSE build_dmia_index(dmia_entities, i + 1,
                               DictPut(dmia_cache, item_ref, dmia_entities[i]))

DmiaEntities(doc) ==
    find_entities(doc.entities, doc.entities_by_type,
                  <<"DRAUGHTING_MODEL_ITEM_ASSOCIATION">>)

\* the first of the references whose entity has the type, None when none has
FirstOfType(doc, refs, type_name) ==
    LET Hit(i) == /\ get_entity(doc.entities, refs[i]) # PyNone
                  /\ has_type(get_entity(doc.entities, refs[i]), type_name)
    IN  IF \E i \in 1..Len(refs) : Hit(i)
           THEN PyStr(refs[Minimum({ i \in 1..Len(refs) : Hit(i) })])
           ELSE PyNone

\* PresentationLinkExtractor._find_annotation_plane: the references of the
\* attributes, then those of the raw line
find_annotation_plane(doc, tess_entity) ==
    FirstOfType(doc, extract_references(tess_entity)
                     \o References(tess_entity.raw_line, 1),
                <<"ANNOTATION_PLANE">>)

\* the loop over tess_refs (lines 1410-1417) from the i-th reference on
RECURSIVE TessellatedPlane(_, _, _)
TessellatedPlane(doc, tess_refs, i) ==
    IF i > Len(tess_refs) THEN PyNone
    ELSE LET Found(tess, plane_ref) ==
                 IF Raises(tess) THEN tess
                 ELSE IF /\ tess # PyNone
                         /\ has_type(tess, <<"TESSELLATED_ANNOTATION_OCCURRENCE">>)
                         /\ plane_ref # PyNone
                    THEN plane_ref
                 ELSE TessellatedPlane(doc, tess_refs, i + 1)
         IN  Found(get_entity_of(doc, tess_refs[i]),
                   find_annotation_plane(doc, get_entity_of(doc, tess_refs[i])))

\* get_presentation_for_dimension from the look-up of the presentation on
\* (lines 1386-1419)
PresentationOf(doc, dmia, presentation) ==
    LET is_callout == has_type(presentation, <<"DRAUGHTING_CALLOUT">>)
        named == get_attribute_value(presentation, 0)
        annotation_type == IF is_callout /\ Truthy(named) THEN named
                           ELSE PyStr(<<"dimension">>)
        tess_refs == get_attribute_value(presentation, 1)
        Link(plane_ref) ==
            IF Raises(plane_ref) THEN plane_ref
            ELSE IF Truthy(plane_ref) \/ annotation_type # PyStr(<<"dimension">>)
               THEN [annotation_type |-> annotation_type, plane_ref |-> plane_ref,
                     position |-> PyNone, dmia_ref |-> dmia.id]
            ELSE PyNone
    IN  IF Raises(presentation) THEN presentation
        ELSE IF presentation = PyNone THEN PyNone
        ELSE Link(IF is_callout /\ IsList(tess_refs)
                     THEN TessellatedPlane(doc, tess_refs.v, 1) ELSE PyNone)

\* PresentationLinkExtractor.get_presentation_for_dimension; get_entity is
\* called outside any try
get_presentation_for_dimension(doc, dmia_cache, dim_entity_id) ==
    LET dmia == DictGet(dmia_cache, PyStr(dim_entity_id))
        presentation_ref == get_attribute_value(dmia, 4)
    IN  IF dmia = PyNone THEN PyNone
        ELSE IF ~Truthy(presentation_ref) THEN PyNone
        ELSE PresentationOf(doc, dmia, get_entity_of(doc, presentation_ref))

\* the loop of extract_all over the dimensions (lines 2642-2653) from the
\* i-th on: a dimension takes the plane its presentation names
RECURSIVE LinkDimensions(_, _, _, _, _)
LinkDimensions(doc, dmia_cache, planes, dimensions, i) ==
    IF i > Len(dimensions) THEN [dimensions |-> dimensions]
    ELSE LET dim == dimensions[i]
             Linked(plane) ==
                 [annotation_plane |->
                     [origin |-> plane.origin, normal |-> plane.normal,
                      writing_direction |-> plane.writing_direction]] @@ dim
             OnPlane(plane) ==
                 IF plane # PyNone
                    THEN LinkDimensions(doc, dmia_cache, planes,
                             [dimensions EXCEPT ![i] = Linked(plane)], i + 1)
                    ELSE LinkDimensions(doc, dmia_cache, planes, dimensions, i + 1)
             With(presentation) ==
                 IF Raises(presentation) THEN presentation
                 ELSE IF presentation # PyNone /\ Truthy(presentation.plane_ref)
                    THEN OnPlane(DictGet(planes, presentation.plane_ref.v))
                 ELSE LinkDimensions(doc, dmia_cache, planes, dimensions, i + 1)
         IN  With(get_presentation_for_dimension(doc, dmia_cache, dim.id))

(***************************************************************************)
(* Annotation positions: AnnotationExtractor.get_annotation_positions      *)
(***************************************************************************)
\* the inner loop of _find_axis_placement_in_entity (lines 1748-1753): the
\* first reference among attrs to an AXIS2_PLACEMENT_3D, None when none is
DirectAxisRef(doc, attrs) ==
    LET Hit(i) == /\ IsRef(attrs[i])
                  /\ get_entity(doc.entities, attrs[i].v) # PyNone
                  /\ has_type(get_entity(doc.entities, attrs[i].v),
                              <<"AXIS2_PLACEMENT_3D">>)
    IN  IF \E i \in 1..Len(attrs) : Hit(i)
           THEN attrs[Minimum({ i \in 1..Len(attrs) : Hit(i) })]
           ELSE PyNone

\* what the outer loop (lines 1739-1753) returns at one attribute, None when
\* it goes on to the next
AxisRefAt(doc, attr) ==
    LET ref_entity == get_entity(doc.entities, attr.v) IN
    IF ~IsRef(attr) \/ ref_entity = PyNone THEN PyNone
    ELSE IF has_type(ref_entity, <<"AXIS2_PLACEMENT_3D">>) THEN attr
    ELSE DirectAxisRef(doc, ref_entity.parsed_attributes)

\* AnnotationExtractor._find_axis_placement_in_entity
find_axis_placement_in_entity(doc, entity) ==
    LET attrs == entity.parsed_attributes
        hits  == { i \in 1..Len(attrs) : AxisRefAt(doc, attrs[i]) # PyNone }
    IN  IF hits # {} THEN AxisRefAt(doc, attrs[Minimum(hits)])
        ELSE FirstOfType(doc, References(entity.raw_line, 1),
                         <<"AXIS2_PLACEMENT_3D">>)

RECURSIVE TessellatedPosition(_, _, _)

\* the body of the loop once the axis placement of the occurrence is found
\* (lines 1704-1723)
PositionAtAxis(doc, tess_refs, i, axis_ref) ==
    LET Position(origin, placement) ==
            [position |-> [x |-> origin.v[1], y |-> origin.v[2],
                           z |-> origin.v[3]],
             annotation_plane |->
                 [origin |-> origin,
                  normal |-> OrDefault(placement.normal, DefaultNormal),
                  writing_direction |->
                      OrDefault(placement.x_axis, DefaultWriting)]]
        Placed(placement) ==
            IF Raises(placement) THEN placement
            ELSE IF placement = PyNone
               THEN TessellatedPosition(doc, tess_refs, i + 1)
            ELSE Position(OrDefault(placement.origin, DefaultOrigin), placement)
    IN  IF axis_ref = PyNone THEN TessellatedPosition(doc, tess_refs, i + 1)
        ELSE Placed(get_axis_placement(doc, axis_ref))

\* the body of the loop once the occurrence is looked up (lines 1696-1703)
PositionOfTess(doc, tess_refs, i, tess) ==
    IF Raises(tess) THEN tess
    ELSE IF tess = PyNone THEN TessellatedPosition(doc, tess_refs, i + 1)
    ELSE PositionAtAxis(doc, tess_refs, i,
                        find_axis_placement_in_entity(doc, tess))

\* the loop over tess_refs (lines 1692-1723) from the i-th reference on
TessellatedPosition(doc, tess_refs, i) ==
    IF i > Len(tess_refs) THEN PyNone
    ELSE IF ~Truthy(tess_refs[i]) THEN TessellatedPosition(doc, tess_refs, i + 1)
    ELSE PositionOfTess(doc, tess_refs, i, get_entity_of(doc, tess_refs[i]))

\* AnnotationExtractor._extract_position_from_dmia_chain: the first DMIA
\* that names the entity, or an attribute of the entity; every exception
\* inside is caught and gives None
extract_position_from_dmia_chain(doc, entity_id, dmia_entities) ==
    LET entity == get_entity(doc.entities, entity_id)
        Names(dmia) ==
            LET item_ref == get_attribute_value(dmia, 2) IN
            \/ item_ref = PyStr(entity_id)
            \/ /\ entity # PyNone
               /\ \E n \in 1..Len(entity.parsed_attributes) :
                     /\ IsStr(entity.parsed_attributes[n])
                     /\ entity.parsed_attributes[n] = item_ref
        Caught(position) == IF Raises(position) THEN PyNone ELSE position
        Listed(listed) ==
            IF IsList(listed) THEN listed.v
            ELSE IF Truthy(listed) THEN <<listed>> ELSE <<>>
        Through(callout) ==
            IF Raises(callout) \/ callout = PyNone THEN PyNone
            ELSE Caught(TessellatedPosition(
                            doc, Listed(get_attribute_value(callout, 1)), 1))
        First(targets) ==
            IF targets = {} THEN PyNone
            ELSE IF ~Truthy(get_attribute_value(dmia_entities[Minimum(targets)], 4))
               THEN PyNone
            ELSE Through(get_entity_of(doc,
                     get_attribute_value(dmia_entities[Minimum(targets)], 4)))
    IN  First({ i \in 1..Len(dmia_entities) : Names(dmia_entities[i]) })

(***************************************************************************)
(* CartesianExtractor (cartesian_extractor.py), on the text of the file    *)
(***************************************************************************)

\* str.split(',')
RECURSIVE SplitComma(_)
SplitComma(text) ==
    IF FindAtom(text, ",", 1) = 0 THEN <<text>>
    ELSE <<Slice(text, 1, FindAtom(text, ",", 1) - 1)>>
         \o SplitComma(Slice(text, FindAtom(text, ",", 1) + 1, Len(text)))

\* the match at i of  #(\d+)=CARTESIAN_POINT\([^,]*,\(([^)]+)\)\);
CartesianPointAt(text, i) ==
    LET e     == SkipDigits(text, i + 1)
        comma == FindAtom(text, ",", e + 3)
        close == FindAtom(text, ")", comma + 2)
    IN  IF /\ At(text, i, "#") /\ e > i + 1
           /\ At(text, e, "=") /\ At(text, e + 1, "CARTESIAN_POINT")
           /\ At(text, e + 2, "(")
           /\ comma # 0 /\ At(text, comma + 1, "(")
           /\ close > comma + 2
           /\ At(text, close + 1, ")") /\ At(text, close + 2, ";")
           THEN [ok |-> TRUE, id |-> Slice(text, i, e - 1),
                 group |-> Slice(text, comma + 2, close - 1), next |-> close + 3]
           ELSE NoMatch

\* the match at i of  #(\d+)=AXIS2_PLACEMENT_3D\([^,]*,(#\d+),[^)]*\);
AxisPlacementAt(text, i) ==
    LET e     == SkipDigits(text, i + 1)
        comma == FindAtom(text, ",", e + 3)
        r     == SkipDigits(text, comma + 2)
        close == FindAtom(text, ")", r + 1)
    IN  IF /\ At(text, i, "#") /\ e > i + 1
           /\ At(text, e, "=") /\ At(text, e + 1, "AXIS2_PLACEMENT_3D")
           /\ At(text, e + 2, "(")
           /\ comma # 0 /\ At(text, comma + 1, "#") /\ r > comma + 2
           /\ At(text, r, ",")
           /\ close # 0 /\ At(text, close + 1, ";")
           THEN [ok |-> TRUE, id |-> Slice(text, i, e - 1),
                 group |-> Slice(text, comma + 1, r - 1), next |-> close + 2]
           ELSE NoMatch

\* re.findall of one of the two patterns: leftmost matches that do not
\* overlap, from index i on.  Both patterns begin with #, so the scan steps
\* from one # to the next.
RECURSIVE FindAll(_, _, _)
RECURSIVE FoundAt(_, _, _, _)
FoundAt(type_name, text, i, m) ==
    IF m.ok THEN <<m>> \o FindAll(type_name, text, m.next)
    ELSE FindAll(type_name, text, i + 1)

FindAll(type_name, text, i) ==
    IF i > Len(text) \/ FindAtom(text, "#", i) = 0 THEN <<>>
    ELSE FoundAt(type_name, text, FindAtom(text, "#", i),
                 IF type_name = "CARTESIAN_POINT"
                    THEN CartesianPointAt(text, FindAtom(text, "#", i))
                    ELSE AxisPlacementAt(text, FindAtom(text, "#", i)))

\* extract_coordinates_from_file: id -> (x, y, z); a group float() rejects,
\* or one of fewer than three numbers, adds nothing
RECURSIVE CoordinatesOf(_, _, _)
CoordinatesOf(matches, i, coordinates) ==
    IF i > Len(matches) THEN coordinates
    ELSE LET pieces == SplitComma(matches[i].group)
             coords == [n \in 1..Len(pieces) |-> FloatOf(PyStr(pieces[n]))]
         IN  IF (\E n \in 1..Len(coords) : Raises(coords[n])) \/ Len(coords) < 3
                THEN CoordinatesOf(matches, i + 1, coordinates)
                ELSE CoordinatesOf(matches, i + 1,
                         DictPut(coordinates, matches[i].id,
                                 PyList(SubSeq(coords, 1, 3))))

extract_coordinates_from_file(text) ==
    CoordinatesOf(FindAll("CARTESIAN_POINT", text, 1), 1, EmptyDict)

\* find_axis_placement_coordinates: a placement takes the coordinates of the
\* point it refers to, when that point was extracted
RECURSIVE AxisCoordinatesOf(_, _, _, _)
AxisCoordinatesOf(matches, i, cartesian_points, coordinates) ==
    IF i > Len(matches) THEN coordinates
    ELSE IF DictGet(cartesian_points, matches[i].group) = PyNone
       THEN AxisCoordinatesOf(matches, i + 1, cartesian_points, coordinates)
    ELSE AxisCoordinatesOf(matches, i + 1, cartesian_points,
             DictPut(coordinates, matches[i].id,
                     DictGet(cartesian_points, matches[i].group)))

find_axis_placement_coordinates(text) ==
    AxisCoordinatesOf(FindAll("AXIS2_PLACEMENT_3D", text, 1), 1,
                      extract_coordinates_from_file(text), EmptyDict)

\* {**a, **b}
RECURSIVE DictUpdate(_, _)
DictUpdate(a, b) ==
    IF b = <<>> THEN a
    ELSE DictUpdate(DictPut(a, b[1].key, b[1].value), Tail(b))

\* both dicts merged, with the points at the origin
get_pmi_positions_all(text) ==
    DictUpdate(extract_coordinates_from_file(text),
               find_axis_placement_coordinates(text))

\* get_pmi_positions: both dicts merged, the points at the origin left out
get_pmi_positions(text) ==
    SelectSeq(DictUpdate(extract_coordinates_from_file(text),
                         find_axis_placement_coordinates(text)),
              LAMBDA item : \E n \in 1..3 : item.value.v[n] # PyFloat(0))

\* the three lists get_annotation_positions places, one after the other
Placeable(data) ==
    data.dimensions \o data.geometric_tolerances \o data.datums

\* an item with no position from the chain and no coordinate of the fallback
\* scan is put at the origin
PlacedItem_nowhere(item, chained, fallback) ==
    IF chained # PyNone
       THEN [position |-> chained.position,
             annotation_plane |-> chained.annotation_plane] @@ item
    ELSE IF fallback # PyNone
       THEN [position |-> [x |-> fallback.v[1], y |-> fallback.v[2],
                           z |-> fallback.v[3]],
             annotation_plane |->
                 [origin |-> fallback, normal |-> DefaultNormal,
                  writing_direction |-> DefaultWriting]] @@ item
    ELSE [position |-> PyNone, annotation_plane |-> DefaultPlane] @@ item

\* what the loops of get_annotation_positions make of one item (lines
\* 1513-1525 and 1584-1593): the position of the chain, else the coordinate
\* of the fallback scan, else the origin
PlacedItem(item, chained, fallback) ==
    IF chained # PyNone
       THEN [position |-> chained.position,
             annotation_plane |-> chained.annotation_plane] @@ item
    ELSE IF fallback # PyNone
       THEN [position |-> [x |-> fallback.v[1], y |-> fallback.v[2],
                           z |-> fallback.v[3]],
             annotation_plane |->
                 [origin |-> fallback, normal |-> DefaultNormal,
                  writing_direction |-> DefaultWriting]] @@ item
    ELSE [position |-> ZeroPosition, annotation_plane |-> DefaultPlane] @@ item

\* the fallback scan is used for every item the chain leaves out
PlacedItems_each(items, chain, coord_list) ==
    [n \in 1..Len(items) |->
        PlacedItem(items[n], chain[n],
                   IF chain[n] = PyNone /\ n <= Len(coord_list)
                      THEN coord_list[n] ELSE PyNone)]

\* the items after the loops: the coordinates of the fallback scan are used
\* when positions_found is 0 (line 1571), one per item as far as they reach
PlacedItems(items, chain, coord_list) ==
    [n \in 1..Len(items) |->
        PlacedItem(items[n], chain[n],
                   IF (\A m \in 1..Len(items) : chain[m] = PyNone)
                      /\ n <= Len(coord_list)
                      THEN coord_list[n] ELSE PyNone)]

\* the positions _extract_position_from_dmia_chain finds for the items
ChainPositions(doc, items) ==
    [n \in 1..Len(items) |->
        extract_position_from_dmia_chain(doc, items[n].id, DmiaEntities(doc))]

\* AnnotationExtractor.get_annotation_positions on the text of the file.
\* Its whole body is in a try: extract_annotation_planes, the one call that
\* raises, comes first, and then pmi_data stays as it was.
get_annotation_positions(doc, data, text) ==
    LET d == Len(data.dimensions)
        t == Len(data.geometric_tolerances)
        Positions(annotation_planes, placed) ==
            IF Raises(annotation_planes) THEN data
            ELSE [annotation_planes |-> DictValues(annotation_planes.planes)]
                 @@ [data EXCEPT
                        !.dimensions = [n \in 1..d |-> placed[n]],
                        !.geometric_tolerances = [n \in 1..t |-> placed[d + n]],
                        !.datums = [n \in 1..Len(data.datums) |->
                                       placed[d + t + n]]]
    IN  Positions(extract_annotation_planes(doc, AnnotationPlaneEntities(doc),
                                            1, EmptyDict),
                  PlacedItems(Placeable(data), ChainPositions(doc, Placeable(data)),
                              DictValues(get_pmi_positions(text))))

\* the pmi_data dict extract_all starts from (lines 2612-2623)
EmptyData(is_legacy) ==
    [version |-> "2.0", source |-> "text_parser",
     schema |-> IF is_legacy THEN "AP203/AP214" ELSE "AP242",
     dimensions |-> <<>>, geometric_tolerances |-> <<>>, datums |-> <<>>,
     surface_finishes |-> <<>>, weld_symbols |-> <<>>, notes |-> <<>>,
     graphical_pmi |-> <<>>]

\* the statistics extract_all adds at its end (lines 2665-2673)
WithStatistics(doc, is_legacy, placed) ==
    [statistics |->
        [dimension_count |-> Len(placed.dimensions),
         tolerance_count |-> Len(placed.geometric_tolerances),
         datum_count |-> Len(placed.datums),
         surface_finish_count |-> Len(placed.surface_finishes),
         weld_count |-> Len(placed.weld_symbols),
         is_legacy_format |-> is_legacy,
         parser_stats |-> get_statistics(doc)]]
    @@ placed

\* PMIExtractor.extract_all of a parser doc, in a process with the given
\* seed, on a file with the given text: the pmi_data dict, or what is raised
extract_all(doc, seed, text) ==
    LET Semantic(data, annotation_planes, presentation_linker, linked) ==
            IF Raises(annotation_planes) THEN annotation_planes
            ELSE IF Raises(presentation_linker) THEN presentation_linker
            ELSE IF Raises(linked) THEN linked
            ELSE [annotation_planes |-> DictValues(annotation_planes.planes)]
                 @@ [data EXCEPT !.dimensions = linked.dimensions,
                                     !.geometric_tolerances = extract_tolerances(doc, seed),
                                     !.datums = extract_datums(doc, seed)]
        Finish(is_legacy, data) ==
            IF Raises(data) THEN data
            ELSE WithStatistics(doc, is_legacy,
                         get_annotation_positions(doc,
                             [data EXCEPT
                                 !.surface_finishes = extract_surface_finishes(doc),
                                 !.weld_symbols = extract_weld_symbols(doc)],
                             text))
        Run(is_legacy, annotation_planes, presentation_linker) ==
            Finish(is_legacy,
                   IF is_legacy
                      THEN [EmptyData(TRUE) EXCEPT
                               !.dimensions = extract_graphical_dimensions(doc),
                               !.graphical_pmi = extract_graphical_annotations(doc)]
                      ELSE Semantic(EmptyData(FALSE), annotation_planes,
                                    presentation_linker,
                                    LinkDimensions(doc, presentation_linker.cache,
                                                   annotation_planes.planes,
                                                   extract_dimensions(doc, seed), 1)))
    IN  Run(is_ap203_or_ap214(doc),
            extract_annotation_planes(doc, AnnotationPlaneEntities(doc), 1, EmptyDict),
            build_dmia_index(DmiaEntities(doc), 1, EmptyDict))

(***************************************************************************)
(* Specification SpecExtract: a file is extracted by one interpreter       *)
(* process, and again by a later one                                       *)
(***************************************************************************)
\* statements picked per file
MaxPicked == 5
\* runs of the extraction per file
MaxRuns == 2

\* #1=DIMENSIONAL_SIZE(#2,'diameter');
DimensionStmt ==
    <<"#", "1", "=", "DIMENSIONAL_SIZE", "(", "#", "2", ",", "'", "diameter",
      "'", ")", ";">>
\* #3=GEOMETRIC_ITEM_SPECIFIC_USAGE($,$,#2,$,#5);
UsageStmt5 ==
    <<"#", "3", "=", "GEOMETRIC_ITEM_SPECIFIC_USAGE", "(", "$", ",", "$",
      ",", "#", "2", ",", "$", ",", "#", "5", ")", ";">>
\* #4=GEOMETRIC_ITEM_SPECIFIC_USAGE($,$,#2,$,#6);
UsageStmt6 ==
    <<"#", "4", "=", "GEOMETRIC_ITEM_SPECIFIC_USAGE", "(", "$", ",", "$",
      ",", "#", "2", ",", "$", ",", "#", "6", ")", ";">>
\* #7=DRAUGHTING_MODEL_ITEM_ASSOCIATION($,$,#1,$,#8);
DmiaStmt ==
    <<"#", "7", "=", "DRAUGHTING_MODEL_ITEM_ASSOCIATION", "(", "$", ",", "$",
      ",", "#", "1", ",", "$", ",", "#", "8", ")", ";">>
\* #7=DRAUGHTING_MODEL_ITEM_ASSOCIATION($,$,(#1),$,#8);
DmiaListStmt ==
    <<"#", "7", "=", "DRAUGHTING_MODEL_ITEM_ASSOCIATION", "(", "$", ",", "$",
      ",", "(", "#", "1", ")", ",", "$", ",", "#", "8", ")", ";">>
\* #8=ANNOTATION_PLANE('p',(#6),#6,$);
PlaneStmt ==
    <<"#", "8", "=", "ANNOTATION_PLANE", "(", "'", "p", "'", ",", "(", "#",
      "6", ")", ",", "#", "6", ",", "$", ")", ";">>
\* #8=ANNOTATION_PLANE('p',$,(#6),$);
PlaneListStmt ==
    <<"#", "8", "=", "ANNOTATION_PLANE", "(", "'", "p", "'", ",", "$", ",",
      "(", "#", "6", ")", ",", "$", ")", ";">>
\* #6=AXIS2_PLACEMENT_3D($,#5,$,$);
AxisStmt ==
    <<"#", "6", "=", "AXIS2_PLACEMENT_3D", "(", "$", ",", "#", "5", ",", "$",
      ",", "$", ")", ";">>
\* #5=CARTESIAN_POINT($,(1.,2.,3.));
PointStmt ==
    <<"#", "5", "=", "CARTESIAN_POINT", "(", "$", ",", "(", "1", ".", ",",
      "2", ".", ",", "3", ".", ")", ")", ";">>
\* #9=PRODUCT('x');
ProductStmt ==
    <<"#", "9", "=", "PRODUCT", "(", "'", "x", "'", ")", ";">>

\* the statements a file picks from, in the order it writes them
Catalogue ==
    << PointStmt, AxisStmt, PlaneStmt, PlaneListStmt, DmiaStmt, DmiaListStmt,
       UsageStmt5, UsageStmt6, DimensionStmt, ProductStmt >>

\* the picked statements, in the order of the catalogue
Picked(S) ==
    LET chosen == SelectSeq([n \in 1..Len(Catalogue) |-> n], LAMBDA n : n \in S)
    IN  [i \in 1..Len(chosen) |-> Catalogue[chosen[i]]]

\* a DATA section, or none
ExtractWrappers ==
    { [head |-> <<"DATA", ";">>,   tail |-> <<"ENDSEC", ";">>, section |-> TRUE],
      [head |-> <<"HEADER", ";">>, tail |-> <<"ENDSEC", ";">>, section |-> FALSE] }

NoOutputs == [k |-> "outputs", v |-> <<>>]

InitExtract ==
    /\ \E w \in ExtractWrappers :
       \E S \in { S \in SUBSET (1..Len(Catalogue)) : Cardinality(S) <= MaxPicked } :
          /\ file = [kind |-> "step", head |-> w.head, tail |-> w.tail,
                     section |-> w.section, stmts |-> Picked(S)]
          /\ content = FileText(file)
    /\ pc = "start"
    /\ entities = EmptyDict
    /\ entities_by_type = EmptyDict
    /\ visited = {}
    /\ result = NoOutputs
    /\ error = NoError
    /\ hash_seed \in HashSeeds
    /\ NoJob

\* PMIExtractor(path): __init__ builds the StepParser, whose ValueError for
\* a file without DATA section leaves the constructor
Construct ==
    /\ pc = "start"
    /\ LET r == parse_file(content) IN
       IF r.ok
          THEN /\ entities' = r.doc.entities
               /\ entities_by_type' = r.doc.entities_by_type
               /\ pc' = "constructed"
               /\ error' = NoError
          ELSE /\ UNCHANGED <<entities, entities_by_type>>
               /\ pc' = "failed"
               /\ error' = r.error
    /\ UNCHANGED <<pmi_data, passes, part, task, file, content, visited, result, hash_seed>>

\* extractor.extract_all(): the dict it returns is kept with those of the
\* earlier runs; an exception that leaves it ends the run
ExtractAll ==
    /\ pc = "constructed"
    /\ LET data == extract_all([entities |-> entities,
                                    entities_by_type |-> entities_by_type],
                                   hash_seed, content)
       IN  IF Raises(data)
              THEN /\ error' = data.exc
                   /\ pc' = "crashed"
                   /\ UNCHANGED result
              ELSE /\ result' = [result EXCEPT !.v = Append(@, data)]
                   /\ pc' = "extracted"
                   /\ UNCHANGED error
    /\ UNCHANGED <<pmi_data, passes, part, task, file, content, entities, entities_by_type, visited, hash_seed>>

\* the program is started again on the same file: a new interpreter process
\* with its own string hashing and no parser yet
NewProcess(seed) ==
    /\ pc = "extracted"
    /\ Len(result.v) < MaxRuns
    /\ hash_seed' = seed
    /\ pc' = "start"
    /\ entities' = EmptyDict
    /\ entities_by_type' = EmptyDict
    /\ UNCHANGED <<pmi_data, passes, part, task, file, content, visited, result, error>>

NextExtract ==
    \/ Construct
    \/ ExtractAll
    \/ \E seed \in HashSeeds : NewProcess(seed)

SpecExtract == InitExtract /\ [][NextExtract]_vars

(***************************************************************************)
(* C1                                                                      *)
(***************************************************************************)
\* C1 as stated: whatever the file holds, a run either returns a result or
\* ends in the format error (ValueError) of a text without DATA section; no
\* other exception leaves the constructor or extract_all.
C1_OnlyFormatError ==
    /\ error \in {NoError, "ValueError"}
    /\ pc # "crashed"

\* the runs C1 is about: an exception other than the format error has left
\* extract_all on a file with a DATA section
C1_Escaped ==
    /\ pc = "crashed"
    /\ file.section
    /\ error \in {"AttributeError", "TypeError"}

(***************************************************************************)
(* C2                                                                      *)
(***************************************************************************)
\* the categories of a result
Categories ==
    {"dimensions", "geometric_tolerances", "datums", "surface_finishes",
     "weld_symbols", "notes", "graphical_pmi", "annotation_planes"}

\* the type names a pass of extract_all looks up to fill a category or to
\* choose the schema
PmiTypes ==
    { GDT_SYMBOLS[n].key : n \in 1..Len(GDT_SYMBOLS) } \cup
    { <<"DIMENSIONAL_SIZE">>, <<"DIMENSIONAL_LOCATION">>, <<"ANGULAR_LOCATION">>,
      <<"GEOMETRIC_TOLERANCE">>, <<"DATUM">>, <<"DATUM_FEATURE">>,
      <<"DATUM_SYSTEM">>, <<"ANNOTATION_PLANE">>,
      <<"SURFACE_TEXTURE_REPRESENTATION">>, <<"SURFACE_TEXTURE_PARAMETER">>,
      <<"MACHINING_ALLOWANCE">>, <<"TEXT_LITERAL">>,
      <<"ANNOTATION_TEXT_OCCURRENCE">>, <<"DRAUGHTING_ANNOTATION_OCCURRENCE">>,
      <<"WELD">>, <<"WELD_SYMBOL">>, <<"WELDING_PROCESS">>,
      <<"ANNOTATION_OCCURRENCE">>, <<"ANNOTATION_CURVE_OCCURRENCE">>,
      <<"LEADER_CURVE">>, <<"DRAUGHTING_MODEL_ITEM_ASSOCIATION">> }

\* the parsed file holds no entity of a PMI type
NoPmiEntity == DOMAIN entities_by_type \cap PmiTypes = {}

\* every category is a key of the output and holds the empty list
AllCategoriesEmpty(data) ==
    \A c \in Categories : c \in DOMAIN data /\ data[c] = <<>>

\* C2: a file with a DATA section and no entity of a PMI type is parsed and
\* extracted without an exception, and every result of a run on it has all
\* eight categories present and empty.
C2_EmptyResult ==
    (file.section /\ NoPmiEntity) =>
        /\ pc \notin {"failed", "crashed"}
        /\ error = NoError
        /\ pc = "extracted" =>
              /\ result.v # <<>>
              /\ \A r \in 1..Len(result.v) : AllCategoriesEmpty(result.v[r])

\* C2 witness: a file of a point, an axis placement and a product, none of a
\* PMI type, has been parsed into three entities and extracted, and its
\* result has every category empty
C2_Witness ==
    /\ pc = "extracted"
    /\ file.section
    /\ file.stmts = <<PointStmt, AxisStmt, ProductStmt>>
    /\ Cardinality(DOMAIN entities) = 3
    /\ NoPmiEntity
    /\ AllCategoriesEmpty(result.v[Len(result.v)])

(***************************************************************************)
(* C10                                                                     *)
(***************************************************************************)
\* C10 as stated: two runs on the same file give the same output, statistics
\* (entity count, number of types) and every list in the same order.
C10_SameOutputs ==
    \A r1, r2 \in 1..Len(result.v) : result.v[r1] = result.v[r2]

\* the runs C10 is about: two processes have extracted the same file and
\* their outputs hold the same dimensions with the associated geometry ids
\* in different orders
C10_OrderDiffers ==
    /\ Len(result.v) = 2
    /\ result.v[1] # result.v[2]
    /\ Len(result.v[1].dimensions) = 1
    /\ Len(result.v[2].dimensions) = 1
    /\ result.v[1].dimensions[1].associated_geometry
         # result.v[2].dimensions[1].associated_geometry
    /\ result.v[1].statistics = result.v[2].statistics

(***************************************************************************)
(* Files that give a dimension its value: a DIMENSIONAL_SIZE, the          *)
(* representation linked to it, the measures of the representation, the    *)
(* unit the measures name and a PLUS_MINUS_TOLERANCE.  The extraction runs *)
(* on them as on the files above.                                          *)
(***************************************************************************)
\* statements of the catalogue a file may leave out
MaxLeftOut == 2

\* #3=DIMENSIONAL_CHARACTERISTIC_REPRESENTATION(#1,#4);
DcrStmt ==
    <<"#", "3", "=", "DIMENSIONAL_CHARACTERISTIC_REPRESENTATION", "(", "#",
      "1", ",", "#", "4", ")", ";">>
\* #4=SHAPE_DIMENSION_REPRESENTATION('',(#5,#6,#7),#9);
SdrStmt ==
    <<"#", "4", "=", "SHAPE_DIMENSION_REPRESENTATION", "(", "'", "'", ",",
      "(", "#", "5", ",", "#", "6", ",", "#", "7", ")", ",", "#", "9", ")",
      ";">>
\* #id=MEASURE_REPRESENTATION_ITEM('name limit',LENGTH_MEASURE(number),#8);
MeasureStmt(id, name, kind, number) ==
    <<"#", id, "=", "MEASURE_REPRESENTATION_ITEM", "(", "'", name, SP, kind,
      "'", ",", "LENGTH_MEASURE", "(">> \o number \o <<")", ",", "#", "8",
      ")", ";">>
NominalStmt(number) == MeasureStmt("5", "nominal", "value", number)
UpperStmt(number)   == MeasureStmt("6", "upper", "limit", number)
LowerStmt(number)   == MeasureStmt("7", "lower", "limit", number)
\* #8=CONVERSION_BASED_UNIT('INCH',#10);
ConversionStmt ==
    <<"#", "8", "=", "CONVERSION_BASED_UNIT", "(", "'", "INCH", "'", ",",
      "#", "1", "0", ")", ";">>
\* #10=LENGTH_MEASURE_WITH_UNIT(LENGTH_MEASURE(25.4),#11);
FactorStmt ==
    <<"#", "1", "0", "=", "LENGTH_MEASURE_WITH_UNIT", "(", "LENGTH_MEASURE",
      "(", "2", "5", ".", "4", ")", ",", "#", "1", "1", ")", ";">>
\* #8=SI_UNIT(.MILLI.,.METRE.);
SiUnitStmt ==
    <<"#", "8", "=", "SI_UNIT", "(", ".", "MILLI", ".", ",", ".", "METRE",
      ".", ")", ";">>
\* #12=PLUS_MINUS_TOLERANCE(#13,#1);
PlusMinusStmt ==
    <<"#", "1", "2", "=", "PLUS_MINUS_TOLERANCE", "(", "#", "1", "3", ",",
      "#", "1", ")", ";">>
\* #13=TOLERANCE_VALUE(#6,#7);
ToleranceValueStmt ==
    <<"#", "1", "3", "=", "TOLERANCE_VALUE", "(", "#", "6", ",", "#", "7",
      ")", ";">>

\* the numbers a file writes: nominal value, upper limit, lower limit
MeasuredNumbers ==
    { [n |-> <<"2", "5", ".", "0">>, u |-> <<"0", ".", "1">>,
       l |-> <<"-", "0", ".", "1">>],
      [n |-> <<"1", "2", ".", "5">>, u |-> <<"0", ".", "2">>,
       l |-> <<"-", "0", ".", "1">>] }

\* the statements a file picks from, in the order it writes them; of two
\* statements with one id the later one stays in the entity map
DimensionCatalogue(numbers) ==
    << DimensionStmt, DcrStmt, SdrStmt, NominalStmt(numbers.n),
       UpperStmt(numbers.u), LowerStmt(numbers.l), ConversionStmt, FactorStmt,
       SiUnitStmt, PlusMinusStmt, ToleranceValueStmt >>

InitDimension ==
    /\ \E numbers \in MeasuredNumbers :
       \E S \in { S \in SUBSET (1..Len(DimensionCatalogue(numbers))) :
                    Cardinality(S) >= Len(DimensionCatalogue(numbers)) - MaxLeftOut } :
          LET chosen == SelectSeq([n \in 1..Len(DimensionCatalogue(numbers)) |-> n],
                                  LAMBDA n : n \in S)
          IN  /\ file = [kind |-> "step", head |-> <<"DATA", ";">>,
                         tail |-> <<"ENDSEC", ";">>, section |-> TRUE,
                         stmts |-> [i \in 1..Len(chosen) |->
                                       DimensionCatalogue(numbers)[chosen[i]]],
                         numbers |-> numbers]
              /\ content = FileText(file)
    /\ pc = "start"
    /\ entities = EmptyDict
    /\ entities_by_type = EmptyDict
    /\ visited = {}
    /\ result = NoOutputs
    /\ error = NoError
    /\ hash_seed \in HashSeeds
    /\ NoJob

SpecDimension == InitDimension /\ [][NextExtract]_vars

(***************************************************************************)
(* C11                                                                     *)
(***************************************************************************)
Holds(stmt) == \E i \in 1..Len(file.stmts) : file.stmts[i] = stmt

\* the file links the diameter #1 to a representation whose measures are
\* named nominal value, upper limit and lower limit
LinkedDiameter ==
    /\ "numbers" \in DOMAIN file
    /\ Holds(DimensionStmt) /\ Holds(DcrStmt) /\ Holds(SdrStmt)
    /\ Holds(NominalStmt(file.numbers.n))
    /\ Holds(UpperStmt(file.numbers.u))
    /\ Holds(LowerStmt(file.numbers.l))

\* the dimension items of the last run
LastDimensions == result.v[Len(result.v)].dimensions

\* U+2300 25.00 U+00B1 0.10 mm
ExampleText ==
    <<DiameterSign, "2", "5", ".", "0", "0", SP, PlusMinusSign, "0", ".",
      "1", "0", SP, "mm">>

\* C11 as stated: the diameter #1 linked to measures named nominal value = n,
\* upper limit = u and lower limit = l yields one dimension item of type
\* diameter with value n and tolerance upper u, lower l; for 25.0, 0.1 and
\* -0.1 its text is the example text
C11_DiameterItem ==
    (pc = "extracted" /\ LinkedDiameter) =>
        /\ Len(LastDimensions) = 1
        /\ LastDimensions[1].type = "diameter"
        /\ LastDimensions[1].value = PyFloat(FloatValue(file.numbers.n))
        /\ LastDimensions[1].tolerance # PyNone
        /\ LastDimensions[1].tolerance.upper = PyFloat(FloatValue(file.numbers.u))
        /\ LastDimensions[1].tolerance.lower = PyFloat(FloatValue(file.numbers.l))
        /\ file.numbers.n = <<"2", "5", ".", "0">> /\ file.numbers.u = <<"0", ".", "1">>
              => LastDimensions[1].text = ExampleText

\* the measures name a unit whose conversion factor is 25.4: every measure
\* of the dimension reads 25.4
C11_UnitFactor ==
    /\ pc = "extracted" /\ LinkedDiameter
    /\ Holds(ConversionStmt) /\ Holds(FactorStmt) /\ ~Holds(SiUnitStmt)
    /\ file.numbers.n = <<"2", "5", ".", "0">>
    /\ Len(LastDimensions) = 1
    /\ LastDimensions[1].value = PyFloat(25400)
    /\ LastDimensions[1].tolerance.upper = PyFloat(25400)
    /\ LastDimensions[1].tolerance.lower = PyFloat(25400)

\* the measures name the SI unit: the item is the one the claim describes
C11_SiUnit ==
    /\ pc = "extracted" /\ LinkedDiameter /\ Holds(SiUnitStmt)
    /\ file.numbers.n = <<"2", "5", ".", "0">>
    /\ Len(LastDimensions) = 1
    /\ LastDimensions[1].value = PyFloat(25000)
    /\ LastDimensions[1].tolerance.upper = PyFloat(100)
    /\ LastDimensions[1].tolerance.lower = PyFloat(-100)
    /\ LastDimensions[1].text = ExampleText

(***************************************************************************)
(* Specification SpecTolerance: files with one geometric tolerance, the    *)
(* datums it names, and datum features                                     *)
(***************************************************************************)
\* the attribute a tolerance statement ends with: none, (#20), #20, or
\* (#11,#12,#13)
NoDatums     == <<>>
SystemInList == <<",", "(", "#", "2", "0", ")">>
SystemBare   == <<",", "#", "2", "0">>
DatumsInList ==
    <<",", "(", "#", "1", "1", ",", "#", "1", "2", ",", "#", "1", "3", ")">>

\* #1=TYPE('p','',#2,#3 datums);
ToleranceStmt(type_name, datum_attr) ==
    <<"#", "1", "=">> \o type_name
    \o <<"(", "'", "p", "'", ",", "'", "'", ",", "#", "2", ",", "#", "3">>
    \o datum_attr \o <<")", ";">>
\* #1=(GEOMETRIC_TOLERANCE('p','',#2,#3)
\*     GEOMETRIC_TOLERANCE_WITH_DATUM_REFERENCE((#20))POSITION_TOLERANCE());
ComplexToleranceStmt ==
    <<"#", "1", "=", "(", "GEOMETRIC_TOLERANCE", "(", "'", "p", "'", ",",
      "'", "'", ",", "#", "2", ",", "#", "3", ")",
      "GEOMETRIC_TOLERANCE_WITH_DATUM_REFERENCE", "(", "(", "#", "2", "0",
      ")", ")", "POSITION_TOLERANCE", "(", ")", ")", ";">>
\* #2=LENGTH_MEASURE_WITH_UNIT(LENGTH_MEASURE(0.25),#8);
MagnitudeStmt ==
    <<"#", "2", "=", "LENGTH_MEASURE_WITH_UNIT", "(", "LENGTH_MEASURE", "(",
      "0", ".", "2", "5", ")", ",", "#", "8", ")", ";">>
\* #id=DATUM('',$,#90,.F.,'label');
DatumStmt(id, label) ==
    <<"#">> \o id
    \o <<"=", "DATUM", "(", "'", "'", ",", "$", ",", "#", "9", "0", ",", ".",
         "F", ".", ",", "'", label, "'", ")", ";">>
DatumA     == DatumStmt(<<"1", "1">>, "A")
DatumB     == DatumStmt(<<"1", "2">>, "B")
DatumC     == DatumStmt(<<"1", "3">>, "C")
DatumAgain == DatumStmt(<<"1", "4">>, "A")
\* #20=DATUM_SYSTEM('s',$,#90,.F.,(#11,#12,#13));
SystemStmt ==
    <<"#", "2", "0", "=", "DATUM_SYSTEM", "(", "'", "s", "'", ",", "$", ",",
      "#", "9", "0", ",", ".", "F", ".", ",", "(", "#", "1", "1", ",", "#",
      "1", "2", ",", "#", "1", "3", ")", ")", ";">>
\* #41=DATUM_FEATURE('Datum A',$,#90,.F.);
FeatureStmt ==
    <<"#", "4", "1", "=", "DATUM_FEATURE", "(", "'", "Datum", SP, "A", "'",
      ",", "$", ",", "#", "9", "0", ",", ".", "F", ".", ")", ";">>
\* #42=DATUM_FEATURE('Datum.1',$,#90,.F.);
NumberedStmt ==
    <<"#", "4", "2", "=", "DATUM_FEATURE", "(", "'", "Datum", ".", "1", "'",
      ",", "$", ",", "#", "9", "0", ",", ".", "F", ".", ")", ";">>
\* #43=SHAPE_ASPECT_RELATIONSHIP('','',#41,#12);
RelationStmt ==
    <<"#", "4", "3", "=", "SHAPE_ASPECT_RELATIONSHIP", "(", "'", "'", ",",
      "'", "'", ",", "#", "4", "1", ",", "#", "1", "2", ")", ";">>

\* the tolerance statement of a file: every tolerance type without datums,
\* and the position tolerance with each form of datum attribute
ToleranceStmts ==
    { ToleranceStmt(GDT_SYMBOLS[n].key, NoDatums) : n \in 1..Len(GDT_SYMBOLS) }
    \cup { ToleranceStmt(<<"POSITION_TOLERANCE">>, datum_attr) :
              datum_attr \in {SystemInList, SystemBare, DatumsInList} }
    \cup {ComplexToleranceStmt}

\* the statements that follow the tolerance, in the order a file writes them
ToleranceCatalogue ==
    << MagnitudeStmt, DatumA, DatumB, DatumC, DatumAgain, SystemStmt,
       FeatureStmt, NumberedStmt, RelationStmt, DmiaStmt >>

InitTolerance ==
    /\ \E tolerance \in ToleranceStmts :
       \E S \in { S \in SUBSET (1..Len(ToleranceCatalogue)) :
                    Cardinality(S) >= Len(ToleranceCatalogue) - MaxLeftOut } :
          LET chosen == SelectSeq([n \in 1..Len(ToleranceCatalogue) |-> n],
                                  LAMBDA n : n \in S)
          IN  /\ file = [kind |-> "step", head |-> <<"DATA", ";">>,
                         tail |-> <<"ENDSEC", ";">>, section |-> TRUE,
                         stmts |-> <<tolerance>>
                                   \o [i \in 1..Len(chosen) |->
                                          ToleranceCatalogue[chosen[i]]]]
              /\ content = FileText(file)
    /\ pc = "start"
    /\ entities = EmptyDict
    /\ entities_by_type = EmptyDict
    /\ visited = {}
    /\ result = NoOutputs
    /\ error = NoError
    /\ hash_seed \in HashSeeds
    /\ NoJob

SpecTolerance == InitTolerance /\ [][NextExtract]_vars

(***************************************************************************)
(* C12                                                                     *)
(***************************************************************************)
\* the tolerance and the datum items of the last run
LastTolerances == result.v[Len(result.v)].geometric_tolerances
LastDatums     == result.v[Len(result.v)].datums

\* the file holds a POSITION_TOLERANCE that references the DATUM_SYSTEM #20,
\* which enumerates the datums A, B and C in that order
PositionOnSystem ==
    /\ \/ Holds(ToleranceStmt(<<"POSITION_TOLERANCE">>, SystemInList))
       \/ Holds(ToleranceStmt(<<"POSITION_TOLERANCE">>, SystemBare))
       \/ Holds(ComplexToleranceStmt)
    /\ Holds(SystemStmt) /\ Holds(DatumA) /\ Holds(DatumB) /\ Holds(DatumC)

\* datum_refs of A, B, C
ThreeLabels == PyList(<<PyStr(<<"A">>), PyStr(<<"B">>), PyStr(<<"C">>)>>)

\* C12 as stated: a POSITION_TOLERANCE that references a DATUM_SYSTEM
\* enumerating the datums A, B, C yields a tolerance item whose datum_refs
\* is the three-element list A, B, C in that order
C12_ThreeDatumRefs ==
    (pc = "extracted" /\ PositionOnSystem) =>
        /\ Len(LastTolerances) >= 1
        /\ \A n \in 1..Len(LastTolerances) :
               LastTolerances[n].datum_refs = ThreeLabels

\* the tolerance lists the DATUM_SYSTEM as its datums: the one item has one
\* datum reference, the labels of the system joined by '-'
C12_JoinedLabels ==
    /\ pc = "extracted" /\ PositionOnSystem
    /\ Holds(ToleranceStmt(<<"POSITION_TOLERANCE">>, SystemInList))
    /\ Len(LastTolerances) = 1
    /\ LastTolerances[1].type = "position"
    /\ LastTolerances[1].datum_refs
          = PyList(<<PyStr(<<"A", "-", "B", "-", "C">>)>>)

\* the tolerance names the datums themselves in its list
C12_ListedDatums ==
    /\ pc = "extracted"
    /\ Holds(ToleranceStmt(<<"POSITION_TOLERANCE">>, DatumsInList))
    /\ Holds(DatumA) /\ Holds(DatumB) /\ Holds(DatumC)
    /\ Len(LastTolerances) = 1
    /\ LastTolerances[1].datum_refs = ThreeLabels

(***************************************************************************)
(* C13                                                                     *)
(***************************************************************************)
\* the 14 characteristics of ASME Y14.5 with the entity type, the type name
\* and the symbol of each (test_pmi_extraction.py, lines 94-114)
AsmeCharacteristics ==
    << [entity |-> "FLATNESS_TOLERANCE", type |-> "flatness",
        symbol |-> <<"U+23E5">>],
       [entity |-> "STRAIGHTNESS_TOLERANCE", type |-> "straightness",
        symbol |-> <<"U+23E4">>],
       [entity |-> "CIRCULARITY_TOLERANCE", type |-> "circularity",
        symbol |-> <<"U+25CB">>],
       [entity |-> "CYLINDRICITY_TOLERANCE", type |-> "cylindricity",
        symbol |-> <<"U+232D">>],
       [entity |-> "LINE_PROFILE_TOLERANCE", type |-> "profile_line",
        symbol |-> <<"U+2312">>],
       [entity |-> "SURFACE_PROFILE_TOLERANCE", type |-> "profile_surface",
        symbol |-> <<"U+2313">>],
       [entity |-> "PARALLELISM_TOLERANCE", type |-> "parallelism",
        symbol |-> <<"U+2225">>],
       [entity |-> "PERPENDICULARITY_TOLERANCE", type |-> "perpendicularity",
        symbol |-> <<"U+22A5">>],
       [entity |-> "ANGULARITY_TOLERANCE", type |-> "angularity",
        symbol |-> <<"U+2220">>],
       [entity |-> "POSITION_TOLERANCE", type |-> "position",
        symbol |-> <<"U+2316">>],
       [entity |-> "CONCENTRICITY_TOLERANCE", type |-> "concentricity",
        symbol |-> <<"U+25CE">>],
       [entity |-> "SYMMETRY_TOLERANCE", type |-> "symmetry",
        symbol |-> <<"U+232F">>],
       [entity |-> "CIRCULAR_RUNOUT_TOLERANCE", type |-> "circular_runout",
        symbol |-> <<"U+2197">>],
       [entity |-> "TOTAL_RUNOUT_TOLERANCE", type |-> "total_runout",
        symbol |-> <<"U+2197", "U+2197">>] >>

\* the item is the one of the characteristic
Carries(item, characteristic) ==
    /\ item.type = characteristic.type
    /\ item.symbol = characteristic.symbol

\* the entity of the parsed file an item was extracted from
EntityOf(item) == get_entity(entities, item.id)

\* the last run took the file for an AP203/AP214 file, whose tolerance pass
\* does not run
LastLegacy == result.v[Len(result.v)].statistics.is_legacy_format

C18_UniqueLabels ==
    pc = "extracted" =>
        \A i, j \in 1..Len(LastDatums) :
            i # j => ~PyEqual(LastDatums[i].label, LastDatums[j].label)

\* two DATUM entities carry the label A: both are items of the list
C18_TwoDatumsOneLabel ==
    /\ pc = "extracted"
    /\ Holds(DatumA) /\ Holds(DatumAgain)
    /\ \E i, j \in 1..Len(LastDatums) :
          /\ LastDatums[i].id = <<"#", "1", "1">>
          /\ LastDatums[j].id = <<"#", "1", "4">>
          /\ LastDatums[i].label = PyStr(<<"A">>)
          /\ LastDatums[j].label = PyStr(<<"A">>)

\* a DATUM_FEATURE whose label a DATUM carries is left out
C18_FeatureLeftOut ==
    /\ pc = "extracted"
    /\ Holds(DatumA) /\ Holds(FeatureStmt) /\ ~Holds(RelationStmt)
    /\ ~\E i \in 1..Len(LastDatums) : LastDatums[i].id = <<"#", "4", "1">>

(***************************************************************************)
(* Specification SpecPasses: extract_all pass by pass.  extract_all runs   *)
(* the passes in one order; here a pass runs when it has not run yet, so   *)
(* that every order of the passes is a behaviour.                          *)
(***************************************************************************)
\* statements a file may leave out
MaxDropped == 1

\* #21=FLATNESS_TOLERANCE('p','',#2,#3);
FlatnessStmt ==
    <<"#", "2", "1", "=", "FLATNESS_TOLERANCE", "(", "'", "p", "'", ",", "'",
      "'", ",", "#", "2", ",", "#", "3", ")", ";">>

\* the statements of a file, in the order it writes them: a dimension, a
\* tolerance and a datum, the chain that places the dimension, and the
\* point the fallback scan finds
PassesCatalogue ==
    << PointStmt, AxisStmt, PlaneStmt, DmiaStmt, DimensionStmt, FlatnessStmt,
       DatumA >>

InitPasses ==
    /\ \E S \in { S \in SUBSET (1..Len(PassesCatalogue)) :
                    Cardinality(S) >= Len(PassesCatalogue) - MaxDropped } :
          LET chosen == SelectSeq([n \in 1..Len(PassesCatalogue) |-> n],
                                  LAMBDA n : n \in S)
          IN  /\ file = [kind |-> "step", head |-> <<"DATA", ";">>,
                         tail |-> <<"ENDSEC", ";">>, section |-> TRUE,
                         stmts |-> [i \in 1..Len(chosen) |->
                                       PassesCatalogue[chosen[i]]]]
              /\ content = FileText(file)
    /\ pc = "start"
    /\ entities = EmptyDict
    /\ entities_by_type = EmptyDict
    /\ visited = {}
    /\ result = NoOutputs
    /\ error = NoError
    /\ hash_seed \in HashSeeds
    /\ NoJob

\* the parser of the run
Document == [entities |-> entities, entities_by_type |-> entities_by_type]

\* the passes of extract_all (lines 2625-2663)
PassNames ==
    {"dimensions", "tolerances", "datums", "surface_finishes", "weld_symbols",
     "positions"}

\* extract_all up to the dict it starts from (lines 2609-2623)
Begin ==
    /\ pc = "constructed"
    /\ pmi_data' = EmptyData(is_ap203_or_ap214(Document))
    /\ passes' = [done |-> {}, placed |-> {}]
    /\ pc' = "passes"
    /\ UNCHANGED <<file, content, entities, entities_by_type, visited, result,
                   error, hash_seed, part, task>>

\* the dimensions linked to their planes (lines 2636-2656), or what is raised
LinkedData(data, annotation_planes, presentation_linker, linked) ==
    IF Raises(annotation_planes) THEN annotation_planes
    ELSE IF Raises(presentation_linker) THEN presentation_linker
    ELSE IF Raises(linked) THEN linked
    ELSE [annotation_planes |-> DictValues(annotation_planes.planes)]
         @@ [data EXCEPT !.dimensions = linked.dimensions]

\* the dict after the dimension pass: the graphical dimensions of a legacy
\* file (lines 2628-2629), else the dimensions and their planes
DimensionData(doc, seed, data, annotation_planes, presentation_linker) ==
    IF data.schema = "AP203/AP214"
       THEN [data EXCEPT !.dimensions = extract_graphical_dimensions(doc),
                         !.graphical_pmi = extract_graphical_annotations(doc)]
       ELSE LinkedData(data, annotation_planes, presentation_linker,
                       LinkDimensions(doc, presentation_linker.cache,
                                      annotation_planes.planes,
                                      extract_dimensions(doc, seed), 1))

\* the dict after a pass, or what the pass raises
PassData(name, doc, seed, data, text) ==
    CASE name = "dimensions" ->
            DimensionData(doc, seed, data,
                extract_annotation_planes(doc, AnnotationPlaneEntities(doc), 1,
                                          EmptyDict),
                build_dmia_index(DmiaEntities(doc), 1, EmptyDict))
      [] name = "tolerances" ->
            IF data.schema = "AP203/AP214" THEN data
            ELSE [data EXCEPT !.geometric_tolerances = extract_tolerances(doc, seed)]
      [] name = "datums" ->
            IF data.schema = "AP203/AP214" THEN data
            ELSE [data EXCEPT !.datums = extract_datums(doc, seed)]
      [] name = "surface_finishes" ->
            [data EXCEPT !.surface_finishes = extract_surface_finishes(doc)]
      [] name = "weld_symbols" ->
            [data EXCEPT !.weld_symbols = extract_weld_symbols(doc)]
      [] name = "positions" -> get_annotation_positions(doc, data, text)

\* a pass whose lookup leaves an empty list in the type index, as a lookup
\* with setdefault would
RunPass_setdefault(name, data) ==
    /\ pc = "passes"
    /\ name \notin passes.done
    /\ ~Raises(data)
    /\ pmi_data' = data
    /\ passes' = [done |-> passes.done \cup {name},
                  placed |-> IF name = "positions" THEN passes.done
                             ELSE passes.placed]
    /\ entities_by_type' = Put(entities_by_type, <<"WELD">>, <<>>)
    /\ UNCHANGED <<file, content, entities, visited, result, hash_seed, part,
                   task, pc, error>>

\* a tolerance pass that starts the list of the datums anew: a pass that
\* writes a key of another pass
RunPass_clearing(name, data) ==
    /\ pc = "passes"
    /\ name \notin passes.done
    /\ ~Raises(data)
    /\ pmi_data' = IF name = "tolerances" THEN [data EXCEPT !.datums = <<>>]
                   ELSE data
    /\ passes' = [done |-> passes.done \cup {name},
                  placed |-> IF name = "positions" THEN passes.done
                             ELSE passes.placed]
    /\ UNCHANGED <<file, content, entities, entities_by_type, visited, result,
                   hash_seed, part, task, pc, error>>

\* a pass that has not run yet runs: it reads the parser and writes pmi_data;
\* an exception that leaves it ends the run
RunPass(name, data) ==
    /\ pc = "passes"
    /\ name \notin passes.done
    /\ IF Raises(data)
          THEN /\ pc' = "crashed"
               /\ error' = data.exc
               /\ UNCHANGED <<pmi_data, passes>>
          ELSE /\ pmi_data' = data
               /\ passes' = [done |-> passes.done \cup {name},
                             placed |-> IF name = "positions" THEN passes.done
                                        ELSE passes.placed]
               /\ UNCHANGED <<pc, error>>
    /\ UNCHANGED <<file, content, entities, entities_by_type, visited, result,
                   hash_seed, part, task>>

DimensionPass ==
    RunPass("dimensions", PassData("dimensions", Document, hash_seed, pmi_data, content))
TolerancePass ==
    RunPass("tolerances", PassData("tolerances", Document, hash_seed, pmi_data, content))
DatumPass ==
    RunPass("datums", PassData("datums", Document, hash_seed, pmi_data, content))
SurfaceFinishPass ==
    RunPass("surface_finishes",
            PassData("surface_finishes", Document, hash_seed, pmi_data, content))
WeldPass ==
    RunPass("weld_symbols",
            PassData("weld_symbols", Document, hash_seed, pmi_data, content))
PositionsPass ==
    RunPass("positions", PassData("positions", Document, hash_seed, pmi_data, content))

\* the end of extract_all (lines 2665-2675): the statistics are added and the
\* dict is returned
Statistics ==
    /\ pc = "passes"
    /\ passes.done = PassNames
    /\ result' = [result EXCEPT !.v =
                     Append(@, WithStatistics(Document,
                                              pmi_data.schema = "AP203/AP214",
                                              pmi_data))]
    /\ pc' = "extracted"
    /\ UNCHANGED <<file, content, entities, entities_by_type, visited, error,
                   hash_seed, pmi_data, passes, part, task>>

NextPasses ==
    \/ Construct
    \/ Begin
    \/ DimensionPass
    \/ TolerancePass
    \/ DatumPass
    \/ SurfaceFinishPass
    \/ WeldPass
    \/ PositionsPass
    \/ Statistics

SpecPasses == InitPasses /\ [][NextPasses]_vars

(***************************************************************************)
(* C14, C15: the annotation position linker                                *)
(***************************************************************************)
\* a step of the run in which get_annotation_positions is called
PositionsStep ==
    /\ pc = "passes"
    /\ "positions" \notin passes.done
    /\ pc' = "passes"
    /\ "positions" \in passes'.done

\* the keys of an item the linker writes
PlacedKeys == {"position", "annotation_plane"}

\* the position the chain resolves for an item, PyNone when it resolves none
ChainOf(item) ==
    extract_position_from_dmia_chain(Document, item.id, DmiaEntities(Document))

\* the chain resolved a position for some item of the document
SomeChained(data) ==
    \E n \in 1..Len(Placeable(data)) : ChainOf(Placeable(data)[n]) # PyNone

\* the coordinates of the fallback scan reach the n-th item of the document
FallbackReaches(n) == n <= Len(get_pmi_positions(content))

\* no position could be resolved for the n-th item of the document: none by
\* the chain, and none by the fallback scan
Unresolved(data, n) ==
    /\ ChainOf(Placeable(data)[n]) = PyNone
    /\ SomeChained(data) \/ ~FallbackReaches(n)

\* the item is the one it was, but for the keys the linker writes
SameItem(before, after) ==
    /\ DOMAIN before \subseteq DOMAIN after
    /\ \A k \in DOMAIN before \ PlacedKeys : after[k] = before[k]

\* the items of a list are kept, one for one and in their order
SameItems(before, after) ==
    /\ Len(after) = Len(before)
    /\ \A n \in 1..Len(before) : SameItem(before[n], after[n])

\* C14: the linker removes no item: every dimension, geometric tolerance
\* and datum that is there before it runs is there afterwards, in the same
\* order, and has a position, which is the origin when neither the chain nor
\* the fallback scan resolved one for it.
C14_ItemsKept ==
    [][PositionsStep =>
          /\ SameItems(pmi_data.dimensions, pmi_data'.dimensions)
          /\ SameItems(pmi_data.geometric_tolerances,
                       pmi_data'.geometric_tolerances)
          /\ SameItems(pmi_data.datums, pmi_data'.datums)
          /\ \A n \in 1..Len(Placeable(pmi_data)) :
                /\ "position" \in DOMAIN Placeable(pmi_data')[n]
                /\ Placeable(pmi_data')[n].position # PyNone
                /\ Unresolved(pmi_data, n) =>
                      Placeable(pmi_data')[n].position = ZeroPosition]_vars

\* the three item passes have run before the linker
PlacedAll ==
    /\ pc = "passes"
    /\ "positions" \in passes.done
    /\ {"dimensions", "tolerances", "datums"} \subseteq passes.placed

\* C14 witness: the linker has run on a dimension, a tolerance and a datum
\* of a file without chain; the scan gave the dimension a coordinate and
\* the datum, which it did not reach, is at the origin.
C14_DatumAtOrigin ==
    /\ PlacedAll
    /\ Len(pmi_data.dimensions) = 1
    /\ Len(pmi_data.geometric_tolerances) = 1
    /\ Len(pmi_data.datums) = 1
    /\ ~SomeChained(pmi_data)
    /\ pmi_data.dimensions[1].position # ZeroPosition
    /\ pmi_data.datums[1].position = ZeroPosition

\* C15: the coordinates of the fallback scan are given out only in a run in
\* which the chain resolved a position for no item of the document: when
\* the chain resolved one for some item, every item it resolved none for is
\* at the origin, on the default plane.
C15_FallbackOnlyAlone ==
    [][(PositionsStep /\ SomeChained(pmi_data)) =>
          \A n \in 1..Len(Placeable(pmi_data)) :
              ChainOf(Placeable(pmi_data)[n]) = PyNone =>
                 /\ Placeable(pmi_data')[n].position = ZeroPosition
                 /\ Placeable(pmi_data')[n].annotation_plane = DefaultPlane]_vars

\* C15 witness: the chain placed the dimension; the scan has a coordinate,
\* and the tolerance and the datum are at the origin.
C15_ChainedAndOrigin ==
    /\ PlacedAll
    /\ Len(pmi_data.dimensions) = 1
    /\ ChainOf(pmi_data.dimensions[1]) # PyNone
    /\ pmi_data.dimensions[1].position = ChainOf(pmi_data.dimensions[1]).position
    /\ get_pmi_positions(content) # <<>>
    /\ Len(pmi_data.geometric_tolerances) = 1
    /\ pmi_data.geometric_tolerances[1].position = ZeroPosition
    /\ Len(pmi_data.datums) = 1
    /\ pmi_data.datums[1].position = ZeroPosition

Returned == result.v[Len(result.v)]

\* the passes whose items the linker rewrites
ItemPasses == {"dimensions", "tolerances", "datums"}

\* C17 as stated: run in any order, the six passes produce the dict the
\* sequential order of extract_all produces.
C17_AnyOrder ==
    pc = "extracted" => Returned = extract_all(Document, hash_seed, content)

\* C17: the linker writes the items of the dimension, tolerance and datum
\* passes; with the linker run after these three, the passes produce in any
\* order the dict the sequential order of extract_all produces.
C17_LinkerAfterItems ==
    (pc = "extracted" /\ ItemPasses \subseteq passes.placed)
        => Returned = extract_all(Document, hash_seed, content)

\* C17 witness: a run in another order than that of extract_all, the
\* surface finish and weld passes after the linker, returned a dict with a
\* dimension, a tolerance and a datum, the dimension placed by the chain.
C17_FinishesAfterLinker ==
    /\ pc = "extracted"
    /\ passes.placed = ItemPasses
    /\ Len(Returned.dimensions) = 1
    /\ Len(Returned.geometric_tolerances) = 1
    /\ Len(Returned.datums) = 1
    /\ Returned.dimensions[1].position # ZeroPosition
    /\ Returned = extract_all(Document, hash_seed, content)

\* a run in which the linker ran before the dimension pass returned a
\* dimension without the position of its chain
C17_LinkerFirst ==
    /\ pc = "extracted"
    /\ "dimensions" \notin passes.placed
    /\ Len(Returned.dimensions) = 1
    /\ Returned.dimensions[1].position = ZeroPosition
    /\ ChainOf(Returned.dimensions[1]) # PyNone

(***************************************************************************)
(* C19                                                                     *)
(***************************************************************************)
\* the Document has an entity of the type
HasEntityOfType(type_name) ==
    \E id \in DOMAIN entities :
        \E n \in 1..Len(entities[id].types) : entities[id].types[n] = <<type_name>>

\* the entity types only an AP242 file has, and the draughting types of an
\* AP203/AP214 file
Ap242Types == {"DIMENSIONAL_SIZE", "GEOMETRIC_TOLERANCE", "DATUM_SYSTEM"}
Ap203Types ==
    {"ANNOTATION_OCCURRENCE", "DRAUGHTING_ANNOTATION_OCCURRENCE",
     "ANNOTATION_CURVE_OCCURRENCE", "DRAUGHTING_MODEL_ITEM_ASSOCIATION"}

\* C19: the format tag of the result is AP203/AP214 exactly when the
\* Document has no entity of type DIMENSIONAL_SIZE, GEOMETRIC_TOLERANCE or
\* DATUM_SYSTEM and has an entity of one of the four draughting types, and
\* AP242 otherwise; a result tagged AP203/AP214 has no geometric tolerances
\* and no datums.
C19_FormatTag ==
    pc = "extracted" =>
       /\ Returned.schema = "AP203/AP214" <=>
             /\ \A t \in Ap242Types : ~HasEntityOfType(t)
             /\ \E t \in Ap203Types : HasEntityOfType(t)
       /\ Returned.schema # "AP203/AP214" => Returned.schema = "AP242"
       /\ Returned.schema = "AP203/AP214" =>
             /\ Returned.geometric_tolerances = <<>>
             /\ Returned.datums = <<>>

\* C19 witness: a file with a flatness tolerance, the datum A and an
\* association, and no entity of an AP242 type, was tagged AP203/AP214; the
\* result has no tolerance and no datum.
C19_LegacyWithTolerance ==
    /\ pc = "extracted"
    /\ Holds(ToleranceStmt(<<"FLATNESS_TOLERANCE">>, NoDatums))
    /\ Holds(DatumA)
    /\ Holds(DmiaStmt)
    /\ Returned.schema = "AP203/AP214"
    /\ Returned.geometric_tolerances = <<>>
    /\ Returned.datums = <<>>

\* a file with an association and the DATUM_SYSTEM #20 was tagged AP242
C19_SystemAndAssociation ==
    /\ pc = "extracted"
    /\ Holds(SystemStmt)
    /\ Holds(DmiaStmt)
    /\ Returned.schema = "AP242"

\* a file with neither was tagged AP242
C19_NeitherKind ==
    /\ pc = "extracted"
    /\ ~Holds(SystemStmt)
    /\ ~Holds(DmiaStmt)
    /\ \A t \in Ap242Types : ~HasEntityOfType(t)
    /\ Returned.schema = "AP242"
    /\ Returned.geometric_tolerances # <<>>

(***************************************************************************)
(* The /process-async endpoint and its background task (eryxon3d/main.py)  *)
(* with the database calls of supabase_client.py.  part is the row of the  *)
(* parts table, its metadata a dict; task is the request and the           *)
(* background task it queues.                                              *)
(***************************************************************************)
MAX_RETRIES == 3

\* str(e) of an exception: a message, or the empty str of an exception
\* raised without one
ErrorTexts == {PyStr(<<>>), PyStr(<<"message">>)}

\* del d[key]
Without(d, key) == [k \in DOMAIN d \ {key} |-> d[k]]

\* do_update between its select and its update (supabase_client.py:124-145):
\* the metadata it writes, merged from the metadata it read
UpdatedMetadata(current_metadata, status, err, progress, stage) ==
    LET merged ==
            [pmi_status |-> status, pmi_status_updated_at |-> "utcnow"]
            @@ current_metadata
        with_progress ==
            IF progress # PyNone THEN [pmi_progress |-> progress] @@ merged
            ELSE merged
        with_stage ==
            IF stage # PyNone THEN [pmi_stage |-> stage] @@ with_progress
            ELSE with_progress
    IN  IF Truthy(err) THEN [pmi_error |-> err] @@ with_stage
        ELSE IF "pmi_error" \in DOMAIN with_stage /\ status = "complete"
           THEN Without(with_stage, "pmi_error")
        ELSE with_stage

\* len(pmi_data.get(key, []))
CountOf(data, key) == IF key \in DOMAIN data THEN Len(data[key]) ELSE 0

\* the pmi_summary of do_store (lines 217-225)
PmiSummary(data) ==
    [dimensions |-> CountOf(data, "dimensions"),
     geometric_tolerances |-> CountOf(data, "geometric_tolerances"),
     datums |-> CountOf(data, "datums"),
     surface_finishes |-> CountOf(data, "surface_finishes"),
     notes |-> CountOf(data, "notes"),
     graphical_pmi |-> CountOf(data, "graphical_pmi"),
     total |-> CountOf(data, "dimensions")
               + CountOf(data, "geometric_tolerances") + CountOf(data, "datums")
               + CountOf(data, "surface_finishes") + CountOf(data, "notes")
               + CountOf(data, "graphical_pmi")]

\* do_store between its select and its update (lines 214-245)
StoredMetadata(current_metadata, data, geometry_stats) ==
    LET merged ==
            [pmi |-> data, pmi_summary |-> PmiSummary(data),
             pmi_status |-> "complete", pmi_progress |-> PyInt(100),
             pmi_stage |-> PyStr(<<"Complete">>), pmi_extracted_at |-> "utcnow",
             pmi_processing_time_ms |-> "processing_time"]
            @@ current_metadata
        with_stats ==
            IF geometry_stats # PyNone
               THEN [geometry_stats |-> geometry_stats] @@ merged
               ELSE merged
    IN  IF "pmi_error" \in DOMAIN with_stats
           THEN Without(with_stats, "pmi_error") ELSE with_stats

\* the dict process_cad_async stores when the result has no PMI (main.py
\* lines 661-669)
NoPmiFound ==
    [version |-> "1.0", dimensions |-> <<>>, geometric_tolerances |-> <<>>,
     datums |-> <<>>, surface_finishes |-> <<>>, notes |-> <<>>,
     graphical_pmi |-> <<>>]

\* a PMI dict with one dimension
OneDimension ==
    [EmptyData(FALSE) EXCEPT !.dimensions = <<[id |-> <<"#", "1">>]>>]

\* the geometry statistics of a result with geometry (lines 648-653)
GeometryStats == [total_vertices |-> 8, total_faces |-> 12]

\* what extract_geometry_and_pmi returns: PMI or none, geometry or none
ProcessingResults ==
    [pmi : {PyNone, OneDimension}, geometry : {PyNone, GeometryStats}]

\* the metadata of the part when the request comes in: a part never
\* processed, one whose last run failed, one whose last run completed
StartMetadata ==
    { [file_path |-> "part.step"],
      [file_path |-> "part.step", pmi_status |-> "error",
       pmi_error |-> PyStr(<<"earlier">>)],
      [file_path |-> "part.step", pmi_status |-> "complete",
       pmi |-> NoPmiFound] }

InitAsync ==
    /\ part \in [k : {"part"}, metadata : StartMetadata]
    /\ task \in [k : {"task"}, at : {"endpoint"}, attempt : {1},
                 include_geometry : BOOLEAN, include_pmi : BOOLEAN,
                 result : {NoResult}, exc : {PyNone}, failed : {FALSE}]
    /\ file = NoFile
    /\ content = NoText
    /\ pc = "start"
    /\ entities = EmptyDict
    /\ entities_by_type = EmptyDict
    /\ visited = {}
    /\ result = NoResult
    /\ error = NoError
    /\ hash_seed = 0
    /\ pmi_data = NoData
    /\ passes = NoData

\* the positions at which update_pmi_status is being called: by the endpoint
\* (main.py line 711), by the five update_pmi_progress calls, by the except
\* clause of the task (line 678) and by store_pmi_result after its retries
\* (supabase_client.py line 260)
StatusPositions ==
    {"endpoint", "progress10", "progress30", "progress50", "progress70",
     "progress90", "except", "store_failed"}

\* the arguments of the call at a position
StatusArgs(at) ==
    CASE at = "endpoint" ->
            [status |-> "processing", error |-> PyNone, progress |-> PyNone,
             stage |-> PyNone]
      [] at = "progress10" ->
            [status |-> "processing", error |-> PyNone, progress |-> PyInt(10),
             stage |-> PyStr(<<"Downloading", SP, "file">>)]
      [] at = "progress30" ->
            [status |-> "processing", error |-> PyNone, progress |-> PyInt(30),
             stage |-> PyStr(<<"Parsing", SP, "CAD", SP, "file">>)]
      [] at = "progress50" ->
            [status |-> "processing", error |-> PyNone, progress |-> PyInt(50),
             stage |-> PyStr(<<"Extracting", SP, "geometry">>)]
      [] at = "progress70" ->
            [status |-> "processing", error |-> PyNone, progress |-> PyInt(70),
             stage |-> PyStr(<<"Extracting", SP, "PMI/GD&T">>)]
      [] at = "progress90" ->
            [status |-> "processing", error |-> PyNone, progress |-> PyInt(90),
             stage |-> PyStr(<<"Storing", SP, "results">>)]
      [] at \in {"except", "store_failed"} ->
            [status |-> "error", error |-> task.exc, progress |-> PyNone,
             stage |-> PyNone]

\* where the caller goes on when update_pmi_status has returned: the
\* endpoint queues the task or answers 404, the task ignores what its
\* progress updates return and ends after its error update
AfterStatus(at, returned) ==
    CASE at = "endpoint" -> IF returned THEN "progress10" ELSE "rejected"
      [] at = "progress10" -> "download"
      [] at = "progress30" ->
            IF task.include_geometry THEN "progress50"
            ELSE IF task.include_pmi THEN "progress70" ELSE "extract"
      [] at = "progress50" -> IF task.include_pmi THEN "progress70" ELSE "extract"
      [] at = "progress70" -> "extract"
      [] at = "progress90" -> "store"
      [] at \in {"except", "store_failed"} -> "ended"

\* an attempt of do_update succeeds: the merged metadata is written and
\* update_pmi_status returns True
UpdateSucceeds ==
    /\ task.at \in StatusPositions
    /\ part' = [part EXCEPT !.metadata =
                   UpdatedMetadata(@, StatusArgs(task.at).status,
                                   StatusArgs(task.at).error,
                                   StatusArgs(task.at).progress,
                                   StatusArgs(task.at).stage)]
    /\ task' = [task EXCEPT !.attempt = 1, !.at = AfterStatus(task.at, TRUE)]
    /\ UNCHANGED <<file, content, pc, entities, entities_by_type, visited,
                   result, error, hash_seed, pmi_data, passes>>

\* an attempt of do_update raises: _retry_operation tries again, and after
\* MAX_RETRIES attempts update_pmi_status returns False (lines 156-160)
UpdateFails ==
    /\ task.at \in StatusPositions
    /\ task' = IF task.attempt < MAX_RETRIES
                  THEN [task EXCEPT !.attempt = @ + 1]
                  ELSE [task EXCEPT !.attempt = 1,
                                    !.at = AfterStatus(task.at, FALSE)]
    /\ UNCHANGED <<part, file, content, pc, entities, entities_by_type,
                   visited, result, error, hash_seed, pmi_data, passes>>

\* the download (main.py lines 589-600): the file, or an exception for a
\* status other than 200, for a file that is too large, or from the client
Download ==
    /\ task.at = "download"
    /\ \/ task' = [task EXCEPT !.at = "progress30"]
       \/ \E message \in ErrorTexts :
             task' = [task EXCEPT !.at = "except", !.exc = message,
                                  !.failed = TRUE]
    /\ UNCHANGED <<part, file, content, pc, entities, entities_by_type,
                   visited, result, error, hash_seed, pmi_data, passes>>

\* extract_geometry_and_pmi (lines 634-639) returns a result or raises
Extract ==
    /\ task.at = "extract"
    /\ \/ \E r \in ProcessingResults :
             task' = [task EXCEPT !.at = "progress90", !.result = r]
       \/ \E message \in ErrorTexts :
             task' = [task EXCEPT !.at = "except", !.exc = message,
                                  !.failed = TRUE]
    /\ UNCHANGED <<part, file, content, pc, entities, entities_by_type,
                   visited, result, error, hash_seed, pmi_data, passes>>

\* an attempt of do_store succeeds (lines 656-670): the PMI of the result,
\* or the empty dict when it has none, is written with status 'complete'
StoreSucceeds ==
    /\ task.at = "store"
    /\ part' = [part EXCEPT !.metadata =
                   StoredMetadata(@, IF task.result.pmi # PyNone
                                        THEN task.result.pmi ELSE NoPmiFound,
                                  task.result.geometry)]
    /\ task' = [task EXCEPT !.attempt = 1, !.at = "ended"]
    /\ UNCHANGED <<file, content, pc, entities, entities_by_type, visited,
                   result, error, hash_seed, pmi_data, passes>>

\* an attempt of do_store raises: after MAX_RETRIES attempts
\* store_pmi_result calls update_pmi_status(part_id, 'error', str(e))
StoreFails ==
    /\ task.at = "store"
    /\ \/ /\ task.attempt < MAX_RETRIES
          /\ task' = [task EXCEPT !.attempt = @ + 1]
       \/ /\ task.attempt = MAX_RETRIES
          /\ \E message \in ErrorTexts :
                task' = [task EXCEPT !.attempt = 1, !.at = "store_failed",
                                     !.exc = message, !.failed = TRUE]
    /\ UNCHANGED <<part, file, content, pc, entities, entities_by_type,
                   visited, result, error, hash_seed, pmi_data, passes>>

NextAsync ==
    \/ UpdateSucceeds
    \/ UpdateFails
    \/ Download
    \/ Extract
    \/ StoreSucceeds
    \/ StoreFails

SpecAsync == InitAsync /\ [][NextAsync]_vars

\* the event loop runs the endpoint and the task it queued to their end
SpecAsyncFair == SpecAsync /\ WF_vars(NextAsync)

(***************************************************************************)
(* C20                                                                     *)
(***************************************************************************)
\* the metadata of the part has the key
Has(key) == key \in DOMAIN part.metadata

\* the pmi_status of the part is the given one
StatusIs(status) == Has("pmi_status") /\ part.metadata.pmi_status = status

\* the request was accepted: the endpoint has returned and queued the task
Accepted == task.at \notin {"endpoint", "rejected"}

\* C20: for an accepted job the part is 'processing' when the endpoint
\* returns and while the task runs; once the task has ended the part is
\* 'complete' with the PMI stored when processing succeeded, 'error' with
\* pmi_error set when it failed, and never still 'processing', also when
\* database writes failed and were retried.
C20_StatusFollowsTask ==
    /\ (Accepted /\ task.at # "ended") => StatusIs("processing")
    /\ (task.at = "ended" /\ ~task.failed) =>
          /\ StatusIs("complete")
          /\ Has("pmi")
    /\ (task.at = "ended" /\ task.failed) =>
          /\ StatusIs("error")
          /\ Has("pmi_error")

\* the task has ended and the part is still 'processing': its download
\* failed, and every attempt to write the status 'error' failed too
C20_LeftProcessing ==
    /\ task.at = "ended"
    /\ task.failed
    /\ StatusIs("processing")
    /\ part.metadata.pmi_progress = PyInt(10)

\* the task has ended with the status 'error' and no pmi_error: the
\* exception had an empty message
C20_ErrorWithoutMessage ==
    /\ task.at = "ended"
    /\ task.failed
    /\ StatusIs("error")
    /\ ~Has("pmi_error")

\* the part is 'processing' from the moment the request is accepted until
\* the task ends
C20_ProcessingWhileRunning ==
    (Accepted /\ task.at # "ended") => StatusIs("processing")

\* a task whose last write succeeds leaves the part 'complete' with the
\* PMI, or 'error'
C20_EndedAfterWrite ==
    [][(task'.at = "ended" /\ part' # part) =>
          \/ /\ part'.metadata.pmi_status = "complete"
             /\ "pmi" \in DOMAIN part'.metadata
             /\ "pmi_error" \notin DOMAIN part'.metadata
          \/ part'.metadata.pmi_status = "error"]_vars

\* every accepted task ends
C20_TaskEnds == Accepted ~> task.at = "ended"

(***************************************************************************)
(* Specifications SpecGraph and SpecCycles: files whose references form    *)
(* chains and cycles.  SpecGraph: a dimension whose shape aspect is        *)
(* related to others over several SHAPE_ASPECT_RELATIONSHIP entities, each *)
(* aspect with its geometry.  SpecCycles: a measure that names itself,     *)
(* relationships that lead back to their first aspect, a DATUM_SYSTEM that *)
(* lists itself.  The extraction runs on them as on the files above.       *)
(***************************************************************************)
\* statements of the catalogue a file may leave out
MaxAbsent == 2

\* #id=SHAPE_ASPECT_RELATIONSHIP('','',#related,#relating);
SarStmt(id, related, relating) ==
    <<"#">> \o id
    \o <<"=", "SHAPE_ASPECT_RELATIONSHIP", "(", "'", "'", ",", "'", "'", ",",
         "#">> \o related \o <<",", "#">> \o relating \o <<")", ";">>

\* #id=GEOMETRIC_ITEM_SPECIFIC_USAGE($,$,#shape,$,#geometry);
UsageStmt(id, shape, geometry) ==
    <<"#">> \o id
    \o <<"=", "GEOMETRIC_ITEM_SPECIFIC_USAGE", "(", "$", ",", "$", ",", "#">>
    \o shape \o <<",", "$", ",", "#">> \o geometry \o <<")", ";">>

\* the shape aspect #2 of the dimension #1, the aspect #31 one
\* relationship away from it and the aspect #41 two away; the geometry #51
\* of #2 (named by two usages), #52 of #31, #53 of #41
Usage2    == UsageStmt(<<"3", "3">>, <<"2">>, <<"5", "1">>)
Usage2Too == UsageStmt(<<"3", "7">>, <<"2">>, <<"5", "1">>)
Usage31   == UsageStmt(<<"3", "4">>, <<"3", "1">>, <<"5", "2">>)
Usage41   == UsageStmt(<<"3", "5">>, <<"4", "1">>, <<"5", "3">>)
Sar2To31  == SarStmt(<<"3", "0">>, <<"2">>, <<"3", "1">>)
Sar31To41 == SarStmt(<<"3", "2">>, <<"3", "1">>, <<"4", "1">>)
\* the relationship that closes the cycle #2, #31, #41, #2
Sar41To2  == SarStmt(<<"3", "6">>, <<"4", "1">>, <<"2">>)

\* #5=MEASURE_REPRESENTATION_ITEM('nominal value',#5,#8);
SelfMeasureStmt ==
    <<"#", "5", "=", "MEASURE_REPRESENTATION_ITEM", "(", "'", "nominal", SP,
      "value", "'", ",", "#", "5", ",", "#", "8", ")", ";">>

\* #21=POSITION_TOLERANCE('p','',#22,#23,(#20));
SystemToleranceStmt ==
    <<"#", "2", "1", "=", "POSITION_TOLERANCE", "(", "'", "p", "'", ",", "'",
      "'", ",", "#", "2", "2", ",", "#", "2", "3", ",", "(", "#", "2", "0",
      ")", ")", ";">>
\* #20=DATUM_SYSTEM('s',$,#90,.F.,(#11,#20));
SelfSystemStmt ==
    <<"#", "2", "0", "=", "DATUM_SYSTEM", "(", "'", "s", "'", ",", "$", ",",
      "#", "9", "0", ",", ".", "F", ".", ",", "(", "#", "1", "1", ",", "#",
      "2", "0", ")", ")", ";">>
\* #20=DATUM_SYSTEM('s',$,#90,.F.,(#11));
OneDatumSystemStmt ==
    <<"#", "2", "0", "=", "DATUM_SYSTEM", "(", "'", "s", "'", ",", "$", ",",
      "#", "9", "0", ",", ".", "F", ".", ",", "(", "#", "1", "1", ")", ")",
      ";">>

\* the statements a file of SpecGraph picks from, in the order it writes
\* them
GraphCatalogue ==
    << DimensionStmt, Usage2, Usage2Too, Usage31, Usage41, Sar2To31,
       Sar31To41, Sar41To2 >>

\* the statements a file of SpecCycles picks from; of two statements with
\* one id (#5, #20) the later one stays in the entity map
CycleCatalogue ==
    << DimensionStmt, DcrStmt, SdrStmt, NominalStmt(<<"2", "5", ".", "0">>),
       SelfMeasureStmt, Sar2To31, Sar31To41, Sar41To2, SystemToleranceStmt,
       OneDatumSystemStmt, SelfSystemStmt >>

\* the file holds all statements of a catalogue but at most absent of
\* them, in the catalogue's order
PickedFrom(catalogue, absent) ==
    \E S \in { S \in SUBSET (1..Len(catalogue)) :
                 Cardinality(S) >= Len(catalogue) - absent } :
       /\ file = [kind |-> "step", head |-> <<"DATA", ";">>,
                  tail |-> <<"ENDSEC", ";">>, section |-> TRUE,
                  stmts |-> SelectSeq(catalogue,
                               LAMBDA stmt : \E n \in S : catalogue[n] = stmt)]
       /\ content = FileText(file)

InitGraph ==
    /\ PickedFrom(GraphCatalogue, MaxAbsent)
    /\ pc = "start"
    /\ entities = EmptyDict
    /\ entities_by_type = EmptyDict
    /\ visited = {}
    /\ result = NoOutputs
    /\ error = NoError
    /\ hash_seed \in HashSeeds
    /\ NoJob

SpecGraph == InitGraph /\ [][NextExtract]_vars

InitCycles ==
    /\ PickedFrom(CycleCatalogue, MaxAbsent)
    /\ pc = "start"
    /\ entities = EmptyDict
    /\ entities_by_type = EmptyDict
    /\ visited = {}
    /\ result = NoOutputs
    /\ error = NoError
    /\ hash_seed \in HashSeeds
    /\ NoJob

SpecCycles == InitCycles /\ [][NextExtract]_vars

(***************************************************************************)
(* C21                                                                     *)
(***************************************************************************)
\* the reference #id as the str an attribute holds
RefTo(id) == PyStr(id)

\* C21: on every document the three traversals end with a value or with
\* 'not found', also where the references form a cycle: the numeric value
\* of no entity, the associated geometry of no shape aspect and the label
\* of no datum reference ends in a recursion without bound.
C21_TraversalsEnd ==
    pc = "extracted" =>
       \A id \in DOMAIN entities :
          /\ ~Raises(get_numeric_value_from_entity(Document, entities[id], 0))
          /\ ~Raises(get_associated_geometry(Document, hash_seed, RefTo(id), 0))
          /\ ~Raises(resolve_datum_reference(Document, id, 0))

\* the dimensions and tolerances of the last run
LastItems(key) == result.v[Len(result.v)][key]

\* C21 witness: the measure #5 names itself, the relationships lead from #2
\* back to #2 and the system #20 lists itself; each traversal ended in
\* RecursionError, and the result holds neither the dimension #1 nor the
\* tolerance #21.
C21_ItemsLost ==
    /\ pc = "extracted"
    /\ Holds(SelfMeasureStmt) /\ Holds(DcrStmt) /\ Holds(SdrStmt)
    /\ Holds(Sar2To31) /\ Holds(Sar31To41) /\ Holds(Sar41To2)
    /\ Holds(SelfSystemStmt) /\ Holds(SystemToleranceStmt)
    /\ Holds(DimensionStmt)
    /\ get_numeric_value_from_entity(Document, entities[<<"#", "5">>], 0)
          = Raise("RecursionError")
    /\ get_associated_geometry(Document, hash_seed, RefTo(<<"#", "2">>), 0)
          = Raise("RecursionError")
    /\ resolve_datum_reference(Document, <<"#", "2", "0">>, 0)
          = Raise("RecursionError")
    /\ LastItems("dimensions") = <<>>
    /\ LastItems("geometric_tolerances") = <<>>

\* without the statements that close the two cycles under the dimension
\* the same file gives the dimension
C21_ItemsWithoutCycle ==
    /\ pc = "extracted"
    /\ ~Holds(SelfMeasureStmt) /\ ~Holds(Sar41To2)
    /\ Len(LastItems("dimensions")) = 1
(***************************************************************************)
(* Specification SpecNumeric: get_numeric_value_from_entity on the         *)
(* entities of files whose attributes hold numbers directly, in lists, in  *)
(* lists of lists, behind references and behind references in lists.       *)
(***************************************************************************)
\* #id=VALUE_LIST('a',<attributes>);
ValueListStmt(id, attributes) ==
    <<"#", id, "=", "VALUE_LIST", "(", "'", "a", "'", ",">> \o attributes
    \o <<")", ";">>

\* #1=VALUE_LIST('a',(#5),3.5);
RefInListThenNumber ==
    ValueListStmt("1", <<"(", "#", "5", ")", ",", "3", ".", "5">>)
\* #2=VALUE_LIST('a',((1.5)),2.5);
NestedListThenNumber ==
    ValueListStmt("2", <<"(", "(", "1", ".", "5", ")", ")", ",", "2", ".", "5">>)
\* #3=VALUE_LIST('a',(#5));
RefInList == ValueListStmt("3", <<"(", "#", "5", ")">>)
\* #4=VALUE_LIST('a',#6);
RefToRef == ValueListStmt("4", <<"#", "6">>)
\* #5=VALUE_LIST('a',7.5);
DirectNumber == ValueListStmt("5", <<"7", ".", "5">>)
\* #6=VALUE_LIST('a',#5,6.5);
RefThenNumber == ValueListStmt("6", <<"#", "5", ",", "6", ".", "5">>)
\* #7=VALUE_LIST('a',('b',4.5));
NumberInList == ValueListStmt("7", <<"(", "'", "b", "'", ",", "4", ".", "5", ")">>)
\* #8=VALUE_LIST('a','b');
NoNumber == ValueListStmt("8", <<"'", "b", "'">>)
\* #9=VALUE_LIST('a',LENGTH_MEASURE(2.5),#10);
WrappedNumber ==
    ValueListStmt("9", <<"LENGTH_MEASURE", "(", "2", ".", "5", ")", ",", "#",
                         "1", "0">>)

NumericCatalogue ==
    << RefInListThenNumber, NestedListThenNumber, RefInList, RefToRef,
       DirectNumber, RefThenNumber, NumberInList, NoNumber, WrappedNumber >>

InitNumeric ==
    /\ PickedFrom(NumericCatalogue, MaxAbsent)
    /\ pc = "start"
    /\ entities = EmptyDict
    /\ entities_by_type = EmptyDict
    /\ visited = {}
    /\ result = NoResult
    /\ error = NoError
    /\ hash_seed = 0
    /\ NoJob

\* parser.get_numeric_value_from_entity(parser.get_entity(id))
NumericValue ==
    /\ pc \in {"constructed", "valued"}
    /\ \E id \in DOMAIN entities :
          result' = [k |-> "numeric", id |-> id,
                     v |-> get_numeric_value_from_entity(Document,
                                                         entities[id], 0)]
    /\ pc' = "valued"
    /\ UNCHANGED <<pmi_data, passes, part, task, file, content, entities, entities_by_type, visited, error, hash_seed>>

NextNumeric ==
    \/ Construct
    \/ NumericValue

SpecNumeric == InitNumeric /\ [][NextNumeric]_vars

(***************************************************************************)
(* C22                                                                     *)
(***************************************************************************)
RECURSIVE DepthFirstNumber(_, _, _)
RECURSIVE FirstFound(_, _, _, _)
RECURSIVE FoundIn(_, _, _)

\* the number a depth-first search finds in one decoded value: the value
\* itself, the first one within a list, the one of the entity a reference
\* names
FoundIn(doc, value, depth) ==
    IF IsNumber(value) THEN PyFloat(AsFloat(value))
    ELSE IF IsList(value) THEN FirstFound(doc, value.v, 1, depth)
    ELSE IF IsRef(value) /\ get_entity(doc.entities, value.v) # PyNone
       THEN DepthFirstNumber(doc, get_entity(doc.entities, value.v), depth + 1)
    ELSE PyNone

\* the first number the search finds in the values from the i-th on
FirstFound(doc, values, i, depth) ==
    IF i > Len(values) THEN PyNone
    ELSE IF FoundIn(doc, values[i], depth) # PyNone
       THEN FoundIn(doc, values[i], depth)
    ELSE FirstFound(doc, values, i + 1, depth)

\* the number of the search, or else the one of the raw statement
DepthFirstNumber(doc, entity, depth) ==
    IF depth > Cardinality(DOMAIN doc.entities) THEN PyNone
    ELSE NumericOrRaw(entity,
                      FirstFound(doc, entity.parsed_attributes, 1, depth))

\* C22: the numeric value of an entity is the first number a depth-first
\* search of its decoded attributes finds, lists at any depth and
\* references, also those inside lists, included; the number of the raw
\* statement only when the search finds none, and None when both fail.
C22_DepthFirst ==
    pc = "valued" =>
       result.v = DepthFirstNumber(Document, entities[result.id], 0)

\* the value of the entity #id was asked for and is v
ValueOf(id, v) ==
    pc = "valued" /\ result.id = <<"#", id>> /\ result.v = v

\* C22 witness: #3 holds only the list (#5) and #5 holds 7.5, and the
\* value of #3 is None: the reference inside the list is not followed
C22_RefInListNotFollowed ==
    Holds(RefInList) /\ Holds(DirectNumber) /\ ValueOf("3", PyNone)

\* of ((1.5)),2.5 the value is 2.5: the inner list is not searched
C22_NestedListSkipped ==
    Holds(NestedListThenNumber) /\ ValueOf("2", PyFloat(2500))

\* cases in which search and method agree: a number in a list, a chain of
\* two references, the raw statement, nothing
C22_NumberInList == Holds(NumberInList) /\ ValueOf("7", PyFloat(4500))
C22_ChainFollowed ==
    Holds(RefToRef) /\ Holds(RefThenNumber) /\ Holds(DirectNumber)
    /\ ValueOf("4", PyFloat(7500))
C22_RawStatement == Holds(WrappedNumber) /\ ValueOf("9", PyFloat(2500))
C22_NoValue == Holds(NoNumber) /\ ValueOf("8", PyNone)
(***************************************************************************)
(* C23                                                                     *)
(***************************************************************************)
\* the shape aspects of the catalogue of SpecGraph
GraphAspects == {<<"#", "2">>, <<"#", "3", "1">>, <<"#", "4", "1">>}

EntitiesOfType(type_name) ==
    { id \in DOMAIN entities :
        \E i \in 1..Len(entities[id].types) : entities[id].types[i] = type_name }

\* the geometry of the GEOMETRIC_ITEM_SPECIFIC_USAGE entities that name the
\* aspect
DirectGeometry(aspect) ==
    { get_attribute_value(entities[id], 4) :
        id \in { u \in EntitiesOfType(<<"GEOMETRIC_ITEM_SPECIFIC_USAGE">>) :
                   get_attribute_value(entities[u], 2) = RefTo(aspect) } }

\* the aspects one SHAPE_ASPECT_RELATIONSHIP away from the aspect
RelatedOnce(aspect) ==
    { get_attribute_value(entities[id], 3).v :
        id \in { r \in EntitiesOfType(<<"SHAPE_ASPECT_RELATIONSHIP">>) :
                   get_attribute_value(entities[r], 2) = RefTo(aspect) } }

OneHopGeometry(aspect) ==
    DirectGeometry(aspect) \cup UNION { DirectGeometry(a) : a \in RelatedOnce(aspect) }

ItemsOf(list) == { list.v[i] : i \in 1..Len(list.v) }

RECURSIVE RelatedWithin(_, _)
\* the aspects at most n relationships away from those of a set
RelatedWithin(aspects, n) ==
    IF n = 0 THEN aspects
    ELSE RelatedWithin(aspects \cup UNION { RelatedOnce(a) : a \in aspects },
                       n - 1)

AllHopsGeometry(aspect) ==
    UNION { DirectGeometry(a) :
              a \in RelatedWithin({aspect},
                       Cardinality(EntitiesOfType(<<"SHAPE_ASPECT_RELATIONSHIP">>))) }

C23_OneHopOnly ==
    /\ pc = "extracted"
    /\ Holds(Sar2To31) /\ ~Holds(Sar31To41)
    /\ Holds(Usage2) /\ Holds(Usage31) /\ Holds(Usage41)
    /\ Len(LastItems("dimensions")) = 1
    /\ ItemsOf(LastItems("dimensions")[1].associated_geometry)
          = {RefTo(<<"#", "5", "1">>), RefTo(<<"#", "5", "2">>)}
(***************************************************************************)
(* Specification SpecStrings: files of well-formed statements with         *)
(* pairwise distinct ids whose string literals hold semicolons and         *)
(* parentheses, and complex entities whose parts hold typed values.        *)
(***************************************************************************)
\* #1=FOO('a;b');
SemicolonStmt ==
    <<"#", "1", "=", "FOO", "(", QUOTE, "a", ";", "b", QUOTE, ")", ";">>
\* #2=FOO('a)b');
ClosingStmt ==
    <<"#", "2", "=", "FOO", "(", QUOTE, "a", ")", "b", QUOTE, ")", ";">>
\* #3=FOO('a(b',2);
OpeningStmt ==
    <<"#", "3", "=", "FOO", "(", QUOTE, "a", "(", "b", QUOTE, ",", "2", ")",
      ";">>
\* #4=(FOO('x;y') BAR(1));
ComplexSemicolonStmt ==
    <<"#", "4", "=", "(", "FOO", "(", QUOTE, "x", ";", "y", QUOTE, ")", SP,
      "BAR", "(", "1", ")", ")", ";">>
\* #5=BAR(1);
PlainStmt == <<"#", "5", "=", "BAR", "(", "1", ")", ";">>
\* #6=FOO(';#7=BAR(1);');
StatementInStringStmt ==
    <<"#", "6", "=", "FOO", "(", QUOTE, ";", "#", "7", "=", "BAR", "(", "1",
      ")", ";", QUOTE, ")", ";">>
\* #8=(FOO(LENGTH_MEASURE(1.5),2) BAR((1,2),'x'));
NestedValueStmt ==
    <<"#", "8", "=", "(", "FOO", "(", "LENGTH_MEASURE", "(", "1", ".", "5",
      ")", ",", "2", ")", SP, "BAR", "(", "(", "1", ",", "2", ")", ",", QUOTE,
      "x", QUOTE, ")", ")", ";">>
\* #9=(FOO(1) BAR(2,#3) BAZ('y'));
ThreePartStmt ==
    <<"#", "9", "=", "(", "FOO", "(", "1", ")", SP, "BAR", "(", "2", ",", "#",
      "3", ")", SP, "BAZ", "(", QUOTE, "y", QUOTE, ")", ")", ";">>
\* #10=(FOO((1),LENGTH_MEASURE(2)) BAR(3));
TypedValueStmt ==
    <<"#", "1", "0", "=", "(", "FOO", "(", "(", "1", ")", ",",
      "LENGTH_MEASURE", "(", "2", ")", ")", SP, "BAR", "(", "3", ")", ")",
      ";">>

StringCatalogue ==
    << SemicolonStmt, ClosingStmt, OpeningStmt, ComplexSemicolonStmt,
       PlainStmt, StatementInStringStmt, NestedValueStmt, ThreePartStmt,
       TypedValueStmt >>

\* any of the statements, in the order of the catalogue
InitStrings ==
    /\ PickedFrom(StringCatalogue, Len(StringCatalogue))
    /\ pc = "start"
    /\ entities = EmptyDict
    /\ entities_by_type = EmptyDict
    /\ visited = {}
    /\ result = NoResult
    /\ error = NoError
    /\ hash_seed = 0
    /\ NoJob

NextStrings == Load

SpecStrings == InitStrings /\ [][NextStrings]_vars

(***************************************************************************)
(* C24                                                                     *)
(***************************************************************************)
RECURSIVE StatementId(_, _)
\* the id a statement is written with: its atoms before the "="
StatementId(stmt, i) ==
    IF stmt[i] = "=" THEN <<>> ELSE <<stmt[i]>> \o StatementId(stmt, i + 1)

WrittenIds == { StatementId(file.stmts[i], 1) : i \in 1..Len(file.stmts) }

\* C24: of a DATA section of well-formed statements with pairwise distinct
\* ids the Document holds exactly one Entity per statement, under the id of
\* the statement, whatever the string literals of the statements hold,
\* semicolons and parentheses included.
C24_OnePerStatement ==
    pc = "loaded" =>
       /\ DOMAIN entities = WrittenIds
       /\ \A id \in DOMAIN entities : entities[id].id = id

\* C24 witness: the file is the one statement #1=FOO('a;b'); and the
\* Document is empty
C24_SemicolonInString ==
    /\ pc = "loaded"
    /\ file.stmts = <<SemicolonStmt>>
    /\ DOMAIN entities = {}

\* the text of a string literal is read as a statement: of
\* #6=FOO(';#7=BAR(1);'); the Document holds #7 and not #6
C24_StatementFromString ==
    /\ pc = "loaded"
    /\ file.stmts = <<StatementInStringStmt>>
    /\ DOMAIN entities = {<<"#", "7">>}

\* parentheses in string literals and no semicolon: one Entity each
C24_ParenthesesInStrings ==
    /\ pc = "loaded"
    /\ file.stmts = <<ClosingStmt, OpeningStmt, PlainStmt>>
    /\ DOMAIN entities = WrittenIds
(***************************************************************************)
(* C25                                                                     *)
(***************************************************************************)
\* the complex statements of the catalogue with the type list T1, ..., Tn
\* and the attribute texts a1, ..., an, joined by commas, they are written
\* with
ComplexWritten ==
    { [stmt |-> NestedValueStmt, id |-> <<"#", "8">>,
       types |-> << <<"FOO">>, <<"BAR">> >>,
       attributes |-> <<"LENGTH_MEASURE", "(", "1", ".", "5", ")", ",", "2",
                        ",", "(", "1", ",", "2", ")", ",", QUOTE, "x", QUOTE>>],
      [stmt |-> ThreePartStmt, id |-> <<"#", "9">>,
       types |-> << <<"FOO">>, <<"BAR">>, <<"BAZ">> >>,
       attributes |-> <<"1", ",", "2", ",", "#", "3", ",", QUOTE, "y", QUOTE>>],
      [stmt |-> TypedValueStmt, id |-> <<"#", "1", "0">>,
       types |-> << <<"FOO">>, <<"BAR">> >>,
       attributes |-> <<"(", "1", ")", ",", "LENGTH_MEASURE", "(", "2", ")",
                        ",", "3">>] }

\* C25: the Entity of a complex statement #id=(T1(a1) ... Tn(an)); has the
\* type list T1, ..., Tn in the order of the statement and no other name,
\* and as attribute string the texts a1, ..., an, each up to its matching
\* closing parenthesis, joined by commas in that order.
C25_ComplexStatement ==
    pc = "loaded" =>
       \A w \in ComplexWritten :
          Holds(w.stmt) /\ w.id \in DOMAIN entities
          => /\ entities[w.id].types = w.types
             /\ entities[w.id].attributes = w.attributes

\* C25 witness: of #8=(FOO(LENGTH_MEASURE(1.5),2) BAR((1,2),'x')); the
\* types are FOO and BAR and the attribute string is LENGTH_MEASURE(1.5,(1,2
\* : each text ends at the first closing parenthesis
C25_TextCutShort ==
    /\ pc = "loaded"
    /\ Holds(NestedValueStmt)
    /\ entities[<<"#", "8">>].types = << <<"FOO">>, <<"BAR">> >>
    /\ entities[<<"#", "8">>].attributes
          = <<"LENGTH_MEASURE", "(", "1", ".", "5", ",", "(", "1", ",", "2">>

\* of #10=(FOO((1),LENGTH_MEASURE(2)) BAR(3)); the types are FOO,
\* LENGTH_MEASURE and BAR
C25_ValueNameAsType ==
    /\ pc = "loaded"
    /\ Holds(TypedValueStmt)
    /\ entities[<<"#", "1", "0">>].types
          = << <<"FOO">>, <<"LENGTH_MEASURE">>, <<"BAR">> >>

\* parts without parentheses in their texts: the types and the texts, as
\* written
C25_FlatParts ==
    /\ pc = "loaded"
    /\ Holds(ThreePartStmt)
    /\ entities[<<"#", "9">>].types = << <<"FOO">>, <<"BAR">>, <<"BAZ">> >>
    /\ entities[<<"#", "9">>].attributes
          = <<"1", ",", "2", ",", "#", "3", ",", QUOTE, "y", QUOTE>>
(***************************************************************************)
(* Specification SpecLimits: files with a dimension whose limits are       *)
(* written twice, with different numbers: as measures of its               *)
(* SHAPE_DIMENSION_REPRESENTATION and as the TOLERANCE_VALUE of a          *)
(* PLUS_MINUS_TOLERANCE.                                                   *)
(***************************************************************************)
\* #13=TOLERANCE_VALUE(#15,#14);
WideToleranceValueStmt ==
    <<"#", "1", "3", "=", "TOLERANCE_VALUE", "(", "#", "1", "5", ",", "#", "1",
      "4", ")", ";">>
\* #14=MEASURE_REPRESENTATION_ITEM('',LENGTH_MEASURE(-0.2),#8);
WideLowerStmt ==
    <<"#", "1", "4", "=", "MEASURE_REPRESENTATION_ITEM", "(", "'", "'", ",",
      "LENGTH_MEASURE", "(", "-", "0", ".", "2", ")", ",", "#", "8", ")", ";">>
\* #15=MEASURE_REPRESENTATION_ITEM('',LENGTH_MEASURE(0.3),#8);
WideUpperStmt ==
    <<"#", "1", "5", "=", "MEASURE_REPRESENTATION_ITEM", "(", "'", "'", ",",
      "LENGTH_MEASURE", "(", "0", ".", "3", ")", ",", "#", "8", ")", ";">>

LimitsCatalogue ==
    << DimensionStmt, DcrStmt, SdrStmt, NominalStmt(<<"2", "5", ".", "0">>),
       UpperStmt(<<"0", ".", "1">>), LowerStmt(<<"-", "0", ".", "1">>),
       PlusMinusStmt, WideToleranceValueStmt, WideLowerStmt, WideUpperStmt >>

InitLimits ==
    /\ PickedFrom(LimitsCatalogue, MaxAbsent)
    /\ pc = "start"
    /\ entities = EmptyDict
    /\ entities_by_type = EmptyDict
    /\ visited = {}
    /\ result = NoOutputs
    /\ error = NoError
    /\ hash_seed \in HashSeeds
    /\ NoJob

SpecLimits == InitLimits /\ [][NextExtract]_vars
(***************************************************************************)
(* C26                                                                     *)
(***************************************************************************)
\* the dimension #1 is linked to its representation #4
ChainWritten == Holds(DimensionStmt) /\ Holds(DcrStmt) /\ Holds(SdrStmt)

\* the representation lists the measures named upper limit and lower limit
ChainLimits ==
    Holds(UpperStmt(<<"0", ".", "1">>)) /\ Holds(LowerStmt(<<"-", "0", ".", "1">>))

\* the PLUS_MINUS_TOLERANCE #12 names the dimension and the bounds 0.3, -0.2
PlusMinusWritten ==
    /\ Holds(PlusMinusStmt) /\ Holds(WideToleranceValueStmt)
    /\ Holds(WideLowerStmt) /\ Holds(WideUpperStmt)

\* the one dimension of the last run has the limits upper and lower
ReportedLimits(upper, lower) ==
    /\ Len(LastDimensions) = 1
    /\ LastDimensions[1].tolerance # PyNone
    /\ LastDimensions[1].tolerance.upper = PyFloat(upper)
    /\ LastDimensions[1].tolerance.lower = PyFloat(lower)

\* C26: where the representation of the dimension lists measures named
\* upper limit and lower limit, their values are the limits of the item;
\* a PLUS_MINUS_TOLERANCE that names the dimension gives the limits only
\* where the representation lists none.
C26_ChainBeforePlusMinus ==
    (pc = "extracted" /\ ChainWritten) =>
       /\ ChainLimits => ReportedLimits(100, -100)
       /\ (~Holds(UpperStmt(<<"0", ".", "1">>))
           /\ ~Holds(LowerStmt(<<"-", "0", ".", "1">>))
           /\ PlusMinusWritten) => ReportedLimits(300, -200)

\* C26 witness: the representation lists the limits 0.1 and -0.1, the
\* PLUS_MINUS_TOLERANCE gives 0.3 and -0.2, and the item has 0.3 and -0.2
C26_PlusMinusWins ==
    /\ pc = "extracted"
    /\ ChainWritten /\ ChainLimits /\ PlusMinusWritten
    /\ ReportedLimits(300, -200)
    /\ LastDimensions[1].tolerance.type = PyStr(<<"plus_minus">>)

\* without the PLUS_MINUS_TOLERANCE the limits are those of the
\* representation
C26_ChainAlone ==
    /\ pc = "extracted"
    /\ ChainWritten /\ ChainLimits /\ ~Holds(PlusMinusStmt)
    /\ ReportedLimits(100, -100)

\* without limits in the representation they are those of the
\* PLUS_MINUS_TOLERANCE
C26_PlusMinusAlone ==
    /\ pc = "extracted"
    /\ ChainWritten /\ PlusMinusWritten
    /\ ~Holds(UpperStmt(<<"0", ".", "1">>))
    /\ ~Holds(LowerStmt(<<"-", "0", ".", "1">>))
    /\ ReportedLimits(300, -200)
(***************************************************************************)
(* Specification SpecFallback: files without a                             *)
(* DRAUGHTING_MODEL_ITEM_ASSOCIATION, with a point at the origin and two   *)
(* other points, a dimension, a tolerance and a datum: the positions are   *)
(* those of the fallback scan.  The passes run as in SpecPasses.           *)
(***************************************************************************)
\* #40=CARTESIAN_POINT($,(0.,0.,0.));
OriginPointStmt ==
    <<"#", "4", "0", "=", "CARTESIAN_POINT", "(", "$", ",", "(", "0", ".", ",",
      "0", ".", ",", "0", ".", ")", ")", ";">>
\* #41=CARTESIAN_POINT($,(4.,5.,6.));
FarPointStmt ==
    <<"#", "4", "1", "=", "CARTESIAN_POINT", "(", "$", ",", "(", "4", ".", ",",
      "5", ".", ",", "6", ".", ")", ")", ";">>

FallbackCatalogue ==
    << OriginPointStmt, PointStmt, FarPointStmt, DimensionStmt, FlatnessStmt,
       DatumA >>

InitFallback ==
    /\ PickedFrom(FallbackCatalogue, MaxAbsent)
    /\ pc = "start"
    /\ entities = EmptyDict
    /\ entities_by_type = EmptyDict
    /\ visited = {}
    /\ result = NoOutputs
    /\ error = NoError
    /\ hash_seed \in HashSeeds
    /\ NoJob

SpecFallback == InitFallback /\ [][NextPasses]_vars

(***************************************************************************)
(* C27                                                                     *)
(***************************************************************************)
\* the points of the catalogue with the coordinates they are written with,
\* in thousandths
WrittenPoints ==
    << [stmt |-> OriginPointStmt, x |-> 0, y |-> 0, z |-> 0],
       [stmt |-> PointStmt, x |-> 1000, y |-> 2000, z |-> 3000],
       [stmt |-> FarPointStmt, x |-> 4000, y |-> 5000, z |-> 6000] >>

\* the points of the file that are not at the origin, in the order the
\* file writes them
RemainingPoints ==
    SelectSeq(WrittenPoints,
              LAMBDA p : Holds(p.stmt) /\ ~(p.x = 0 /\ p.y = 0 /\ p.z = 0))

\* the item is at the point
AtPoint(item, p) ==
    /\ AsFloat(item.position.x) = p.x
    /\ AsFloat(item.position.y) = p.y
    /\ AsFloat(item.position.z) = p.z

AtOrigin(item) == AtPoint(item, [x |-> 0, y |-> 0, z |-> 0])

\* the n-th of the items has the n-th of the points, the items past the
\* last point are at the origin
PlacedInOrder(items, points) ==
    \A n \in 1..Len(items) :
       IF n <= Len(points) THEN AtPoint(items[n], points[n])
       ELSE AtOrigin(items[n])

PlacedAfterItems ==
    /\ pc \in {"passes", "extracted"}
    /\ "positions" \in passes.done
    /\ {"dimensions", "tolerances", "datums"} \subseteq passes.placed

C27_PointsLeftOver ==
    /\ PlacedAfterItems
    /\ ~Holds(DimensionStmt) /\ ~Holds(DatumA)
    /\ Len(Placeable(pmi_data)) = 1
    /\ AtPoint(pmi_data.geometric_tolerances[1], WrittenPoints[2])
(***************************************************************************)
(* Specification SpecComplex: files with tolerances written as simple and  *)
(* as complex entities, one of them with two tolerance type names.         *)
(***************************************************************************)
\* #31=(GEOMETRIC_TOLERANCE('p','',#2,#3) FLATNESS_TOLERANCE() POSITION_TOLERANCE());
TwoTypeToleranceStmt ==
    <<"#", "3", "1", "=", "(", "GEOMETRIC_TOLERANCE", "(", "'", "p", "'", ",",
      "'", "'", ",", "#", "2", ",", "#", "3", ")", SP, "FLATNESS_TOLERANCE",
      "(", ")", SP, "POSITION_TOLERANCE", "(", ")", ")", ";">>

ComplexCatalogue ==
    << ComplexToleranceStmt, TwoTypeToleranceStmt, FlatnessStmt, MagnitudeStmt,
       DatumA, DatumB, SystemStmt >>

InitComplex ==
    /\ PickedFrom(ComplexCatalogue, MaxAbsent)
    /\ pc = "start"
    /\ entities = EmptyDict
    /\ entities_by_type = EmptyDict
    /\ visited = {}
    /\ result = NoOutputs
    /\ error = NoError
    /\ hash_seed \in HashSeeds
    /\ NoJob

SpecComplex == InitComplex /\ [][NextExtract]_vars

(***************************************************************************)
(* C28                                                                     *)
(***************************************************************************)
\* C28: no two items of the list of geometric tolerances come from the
\* same entity: an entity with several tolerance type names, or one found
\* under its tolerance type and under GEOMETRIC_TOLERANCE, gives one item.
C28_OncePerEntity ==
    pc = "extracted" =>
       \A i, j \in 1..Len(LastTolerances) :
          i # j => LastTolerances[i].id # LastTolerances[j].id

\* the items of the last run that come from the entity
ItemsFrom(id) ==
    SelectSeq(LastTolerances, LAMBDA tol : tol.id = id)

\* C28 witness: the complex entity #31 has the types FLATNESS_TOLERANCE and
\* POSITION_TOLERANCE, and the list holds two items from it, a flatness and
\* a position
C28_ReportedTwice ==
    /\ pc = "extracted"
    /\ Holds(TwoTypeToleranceStmt)
    /\ Len(ItemsFrom(<<"#", "3", "1">>)) = 2
    /\ ItemsFrom(<<"#", "3", "1">>)[1].type = "flatness"
    /\ ItemsFrom(<<"#", "3", "1">>)[2].type = "position"

\* the complex entity #1 is found under POSITION_TOLERANCE and under
\* GEOMETRIC_TOLERANCE, and the list holds one item from it
C28_SubtypeAndBase ==
    /\ pc = "extracted"
    /\ Holds(ComplexToleranceStmt)
    /\ <<"#", "1">> \in DOMAIN entities
    /\ has_type(entities[<<"#", "1">>], <<"POSITION_TOLERANCE">>)
    /\ has_type(entities[<<"#", "1">>], <<"GEOMETRIC_TOLERANCE">>)
    /\ Len(ItemsFrom(<<"#", "1">>)) = 1
(***************************************************************************)
(* Specification SpecAssociation: files with a dimension #1 on the shape   *)
(* aspect #2, a DRAUGHTING_MODEL_ITEM_ASSOCIATION that names #1 and leads  *)
(* to the point (1,2,3), and associations that name #2 and lead to the     *)
(* point (4,5,6), one written before and one after the first.              *)
(***************************************************************************)
\* #46=AXIS2_PLACEMENT_3D($,#41,$,$);
FarAxisStmt ==
    <<"#", "4", "6", "=", "AXIS2_PLACEMENT_3D", "(", "$", ",", "#", "4", "1",
      ",", "$", ",", "$", ")", ";">>
\* #48=ANNOTATION_PLANE('p',(#46),#46,$);
FarPlaneStmt ==
    <<"#", "4", "8", "=", "ANNOTATION_PLANE", "(", "'", "p", "'", ",", "(",
      "#", "4", "6", ")", ",", "#", "4", "6", ",", "$", ")", ";">>
\* #id=DRAUGHTING_MODEL_ITEM_ASSOCIATION($,$,#2,$,#48);
AspectDmiaStmt(id) ==
    <<"#">> \o id
    \o <<"=", "DRAUGHTING_MODEL_ITEM_ASSOCIATION", "(", "$", ",", "$", ",",
         "#", "2", ",", "$", ",", "#", "4", "8", ")", ";">>
AspectDmiaBefore == AspectDmiaStmt(<<"4", "7">>)
AspectDmiaAfter  == AspectDmiaStmt(<<"4", "9">>)

AssociationCatalogue ==
    << FarPointStmt, PointStmt, AxisStmt, FarAxisStmt, PlaneStmt, FarPlaneStmt,
       AspectDmiaBefore, DmiaStmt, AspectDmiaAfter, DimensionStmt >>

InitAssociation ==
    /\ PickedFrom(AssociationCatalogue, MaxAbsent)
    /\ pc = "start"
    /\ entities = EmptyDict
    /\ entities_by_type = EmptyDict
    /\ visited = {}
    /\ result = NoOutputs
    /\ error = NoError
    /\ hash_seed \in HashSeeds
    /\ NoJob

SpecAssociation == InitAssociation /\ [][NextExtract]_vars

(***************************************************************************)
(* C29                                                                     *)
(***************************************************************************)
\* the association #7 names the dimension #1, and its plane, placement and
\* point are written
DirectWritten ==
    /\ Holds(DimensionStmt) /\ Holds(DmiaStmt)
    /\ Holds(PlaneStmt) /\ Holds(AxisStmt) /\ Holds(PointStmt)

\* the plane, placement and point of the associations that name #2
FarWritten == Holds(FarPlaneStmt) /\ Holds(FarAxisStmt) /\ Holds(FarPointStmt)

\* C29: where one association names the item and another names only the
\* shape aspect the item refers to, the position of the item is the one
\* the first leads to, in whichever order the file writes the two.
C29_DirectPreferred ==
    (pc = "extracted" /\ DirectWritten) =>
       /\ Len(LastDimensions) = 1
       /\ AtPoint(LastDimensions[1], WrittenPoints[2])

\* C29 witness: the association #47 that names the aspect #2 is written
\* before #7 that names the dimension, and the dimension is at (4,5,6),
\* the point #47 leads to
C29_AspectFirstUsed ==
    /\ pc = "extracted"
    /\ DirectWritten /\ FarWritten /\ Holds(AspectDmiaBefore)
    /\ Len(LastDimensions) = 1
    /\ AtPoint(LastDimensions[1], WrittenPoints[3])

\* written after #7, the association that names the aspect is not used
C29_DirectFirstUsed ==
    /\ pc = "extracted"
    /\ DirectWritten /\ FarWritten
    /\ ~Holds(AspectDmiaBefore) /\ Holds(AspectDmiaAfter)
    /\ Len(LastDimensions) = 1
    /\ AtPoint(LastDimensions[1], WrittenPoints[2])

\* ---------------------------------------------------------------------------
\* Two updates of the metadata of one part (supabase_client.py lines 116-154
\* and 206-253).  do_update and do_store each select the metadata of the
\* part, merge their keys into the map they read and write the whole map
\* back with one update; the two requests are separate calls of the database,
\* with no transaction and no version check, so the requests of two updates
\* (of two processes of the service, or of the service and another writer of
\* the part) arrive in any order.

\* the calls of update_pmi_status that the service makes (main.py lines 711,
\* 618 and 678) and the two calls of store_pmi_result (lines 657 and 661)
MergeOperations ==
    { [op |-> "update_pmi_status", status |-> "processing", error |-> PyNone,
       progress |-> PyNone, stage |-> PyNone],
      [op |-> "update_pmi_status", status |-> "processing", error |-> PyNone,
       progress |-> PyInt(50), stage |-> PyStr(<<"Extracting">>)],
      [op |-> "update_pmi_status", status |-> "error",
       error |-> PyStr(<<"message">>), progress |-> PyNone, stage |-> PyNone],
      [op |-> "store_pmi_result", data |-> OneDimension,
       geometry_stats |-> GeometryStats],
      [op |-> "store_pmi_result", data |-> NoPmiFound,
       geometry_stats |-> PyNone] }

\* the map an update writes, from the map it read
Merged(operation, current_metadata) ==
    IF operation.op = "update_pmi_status"
       THEN UpdatedMetadata(current_metadata, operation.status,
                            operation.error, operation.progress,
                            operation.stage)
       ELSE StoredMetadata(current_metadata, operation.data,
                           operation.geometry_stats)

\* two updates of the same part, neither begun
InitMerge ==
    /\ part \in [k : {"part"}, metadata : StartMetadata]
    /\ \E first \in MergeOperations, second \in MergeOperations :
          task = [k |-> "merge", start |-> part.metadata,
                  updates |->
                     << [operation |-> first, at |-> "called",
                         current_metadata |-> NoData],
                        [operation |-> second, at |-> "called",
                         current_metadata |-> NoData] >>]
    /\ file = NoFile
    /\ content = NoText
    /\ pc = "start"
    /\ entities = EmptyDict
    /\ entities_by_type = EmptyDict
    /\ visited = {}
    /\ result = NoResult
    /\ error = NoError
    /\ hash_seed = 0
    /\ pmi_data = NoData
    /\ passes = NoData

\* the select of do_update and of do_store (lines 118-122 and 208-212): the
\* update has the metadata of the part as it is now
ReadMetadata ==
    \E u \in 1..2 :
       /\ task.updates[u].at = "called"
       /\ task' = [task EXCEPT !.updates[u].at = "read",
                               !.updates[u].current_metadata = part.metadata]
       /\ UNCHANGED <<part, file, content, pc, entities, entities_by_type,
                      visited, result, error, hash_seed, pmi_data, passes>>

\* the merge and the update of do_update and of do_store (lines 124-152 and
\* 214-251): the whole map, merged from the map that was read, replaces the
\* metadata of the part
WriteMetadata ==
    \E u \in 1..2 :
       /\ task.updates[u].at = "read"
       /\ part' = [part EXCEPT !.metadata =
                      Merged(task.updates[u].operation,
                             task.updates[u].current_metadata)]
       /\ task' = [task EXCEPT !.updates[u].at = "written"]
       /\ UNCHANGED <<file, content, pc, entities, entities_by_type, visited,
                      result, error, hash_seed, pmi_data, passes>>

NextMerge == ReadMetadata \/ WriteMetadata

SpecMerge == InitMerge /\ [][NextMerge]_vars

\* both updates have written
BothWritten ==
    /\ task.k = "merge"
    /\ \A u \in 1..2 : task.updates[u].at = "written"

\* the keys an update sets itself: the keys of the map it writes that were
\* not in the map it read, or that it gave another value
KeysWritten(u) ==
    LET before == task.updates[u].current_metadata
        after == Merged(task.updates[u].operation, before)
    IN  { key \in DOMAIN after :
             key \notin DOMAIN before \/ after[key] # before[key] }

\* the keys of the part that neither update sets
KeysOfOthers ==
    { key \in DOMAIN task.start :
         \A u \in 1..2 : key \notin KeysWritten(u) }

\* C30: after any interleaving of two updates of the metadata of one part
\* (update_pmi_status or store_pmi_result, each reading the metadata, merging
\* its keys and writing the whole map back), every key written by either
\* update is in the final metadata, and so is every key that neither update
\* sets: no update is lost.
C30_NoUpdateLost ==
    BothWritten =>
       /\ \A u \in 1..2 : KeysWritten(u) \subseteq DOMAIN part.metadata
       /\ KeysOfOthers \subseteq DOMAIN part.metadata

\* both updates read before either wrote, the stored result was written
\* first, and the metadata of the part has no PMI: the progress update
\* wrote the map it had read over the stored result
C30_ResultLost ==
    /\ BothWritten
    /\ \E u \in 1..2 :
          /\ task.updates[u].operation.op = "store_pmi_result"
          /\ task.updates[3 - u].operation.op = "update_pmi_status"
          /\ task.updates[3 - u].current_metadata = task.start
    /\ ~Has("pmi")
    /\ StatusIs("processing")

\* one update after the other: the first wrote the error, the second read
\* it, stored the result and removed pmi_error, a key it does not set
C30_ErrorRemoved ==
    /\ BothWritten
    /\ task.updates[1].operation.op = "update_pmi_status"
    /\ task.updates[1].operation.status = "error"
    /\ task.updates[2].operation.op = "store_pmi_result"
    /\ "pmi_error" \in DOMAIN task.updates[2].current_metadata
    /\ task.updates[2].current_metadata.pmi_error = PyStr(<<"message">>)
    /\ ~Has("pmi_error")
    /\ StatusIs("complete")

\* one update after the other, neither storing a result: the keys of both
\* are in the metadata of the part
C30_BothKept ==
    /\ BothWritten
    /\ \A u \in 1..2 : task.updates[u].operation.op = "update_pmi_status"
    /\ task.updates[1].operation.progress # PyNone
    /\ task.updates[2].operation.error # PyNone
    /\ task.updates[2].current_metadata # task.start
    /\ Has("pmi_stage") /\ Has("pmi_progress") /\ Has("pmi_error")
    /\ Has("file_path")

====
